---------------------------- MODULE Spec2Model ----------------------------
(***************************************************************************)
(* A model of the distributed file store: the coordinator (namenode.py),   *)
(* the block servers (datanode.py) and the client transfer engine          *)
(* (client.py).  Coordinator requests run on handler threads whose steps   *)
(* are the accesses to shared state (the metadata store, the cache, the    *)
(* membership map, the locks); everything a thread does between two such   *)
(* accesses is local and belongs to the step before it.                    *)
(***************************************************************************)
EXTENDS Integers, Sequences, FiniteSets, TLC

\* ------------------------------------------------------------------ bounds
MaxTime == 31
MaxBlocks == 1
\* Client.block_size, scaled: 64 KiB in the code.
block_size == 2
\* NameNode.max_cache_size, scaled: 1000 in the code.
max_cache_size == 2

\* ------------------------------------------------------- program constants
heartbeat_timeout == 30
replication_factor == 3
send_retries == 2
max_retries == 3
metadata_retries == 3
num_replicas == 3

\* --------------------------------------------------------------- universes
Threads == {"t1", "t2"}
Nodes == {"n1", "n2", "n3", "n4"}

\* A path component is a sequence of characters; a path is a sequence of
\* components ("/" is the empty sequence); a storage key is a sequence of
\* characters.
Ca == <<"a">>
Cb == <<"b">>
Cf == <<"f">>
Cg == <<"g">>
Ch == <<"h">>
Dot == <<".">>
DotDot == <<".", ".">>
Root == <<>>
\* Python's None where a path is expected.
NoPath == << <<"N", "o", "n", "e">>, <<>> >>

\* ------------------------------------------------------------ path helpers
Last(s) == s[Len(s)]
Front(s) == SubSeq(s, 1, Len(s) - 1)

RECURSIVE normalize_from(_, _)
normalize_from(components, rest) ==
  IF rest = <<>> THEN components
  ELSE LET component == Head(rest) IN
       IF component = <<>> \/ component = Dot
         THEN normalize_from(components, Tail(rest))
       ELSE IF component = DotDot
         THEN normalize_from(IF components # <<>> THEN Front(components) ELSE components,
                             Tail(rest))
       ELSE normalize_from(Append(components, component), Tail(rest))

\* NameNode.normalize_path on the components of path.split('/').
normalize_path(path) == normalize_from(<<>>, path)

\* NameNode.get_parent_path: None for the root, else os.path.dirname(path) or '/'.
get_parent_path(path) == IF path = Root THEN NoPath ELSE Front(path)

\* os.path.basename of a path ('' for "/").
basename(path) == IF path = Root THEN <<>> ELSE Last(path)

RECURSIVE replace_slashes(_)
replace_slashes(path) ==
  IF path = <<>> THEN <<>>
  ELSE <<"_", "_">> \o Head(path) \o replace_slashes(Tail(path))

\* NameNode.path_to_key: path.replace('/', '__'); "/" itself is "__".
path_to_key(path) == IF path = Root THEN <<"_", "_">> ELSE replace_slashes(path)

\* A request's file name: abs when it starts with '/', comps its components.
RawName(abs, comps) == [abs |-> abs, comps |-> comps]
\* '/' in filename
HasSlash(name) == name.abs \/ Len(name.comps) > 1
\* os.path.join(current_dir, filename)
path_join(dir, name) == IF name.abs THEN name.comps ELSE dir \o name.comps

IsPrefix(p, s) == Len(p) <= Len(s) /\ SubSeq(s, 1, Len(p)) = p

\* ------------------------------------------------------------- map helpers
MapPut(m, k, v) == [x \in (DOMAIN m) \cup {k} |-> IF x = k THEN v ELSE m[x]]
MapDel(m, k) == [x \in (DOMAIN m) \ {k} |-> m[x]]
EmptyMap == [x \in {} |-> 0]

Range(s) == {s[i] : i \in DOMAIN s}

\* ------------------------------------------------------------------- state
VARIABLES
  directories,    \* redis hash 'directories': path -> directory record
  files,          \* redis hash 'files': storage key -> file metadata
  metadata_cache, \* NameNode.metadata_cache: sequence of [key, obj], oldest first
  objs,           \* the metadata objects the cache and the threads refer to
  datanodes,      \* NameNode.datanodes: sequence of [addr, hb] in insertion order
  datanode_load,  \* NameNode.datanode_load (defaultdict(int))
  dir_lock,       \* holder of NameNode.dir_lock, or "free"
  now,            \* wall clock, seconds
  thr,            \* coordinator handler threads
  mon,            \* the liveness monitor thread
  budget,         \* requests the environment may still send, per kind
  scope,          \* the request arguments the environment draws from (fixed)
  last,           \* what the last step showed: a response, a placement, a
                  \* cache insertion (observation only)
  recency,        \* every key the cache inserted or found, in the order of its
                  \* last insertion or hit (observation only)
  up,             \* the block servers whose process is running
  disk,           \* per block server: block file name -> bytes
  repl,           \* the replication threads of the block servers
  cl,             \* the client: its call, its block tasks, its result
  acked,          \* block ids a block server answered 'success' for in the
                  \* current upload (observation only)
  written,        \* storage key -> bytes of the last upload of it that returned
                  \* success, no later upload of it begun (observation only)
  probe,          \* a function of the program applied on its own: its
                  \* arguments and its results
  dnthr,          \* block server handler threads serving write_block and
                  \* replicate_block step by step
  tmpf,           \* the <path>.tmp files: <<server, block file name>> -> bytes
  lk,             \* the coordinator's four locks: the owner of each, and for
                  \* each thread the acquisitions and releases its current
                  \* request still has to make
  beat            \* the block servers' heartbeat threads: whether the
                  \* coordinator can be reached, and for each server its
                  \* consecutive_failures and its next step

\* The variables outside the coordinator's stores and handler steps.
evars == <<up, disk, repl, cl, acked, written, probe, dnthr, tmpf, lk, beat>>

\* ------------------------------------------------------------ record shapes
NoMd == [filename |-> <<>>, full_path |-> NoPath, storage_name |-> <<>>,
         blocks |-> <<>>, total_size |-> 0, creation_time |-> 0]

NewDir(t) == [created |-> t, children |-> EmptyMap, files |-> EmptyMap]

\* (files0, dirs0: the files registry and the directories map as they were
\* when a delete request began; observation only.)
Idle == [pc |-> "idle", op |-> "none", caller |-> "env",
         name |-> RawName(FALSE, <<>>), cwd |-> Root, count |-> 0, bsize |-> 0,
         path |-> Root, key |-> <<>>, md |-> NoMd, obj |-> 0, active |-> {},
         i |-> 0, tmp |-> <<>>, blocks |-> <<>>, cfiles |-> <<>>, cdirs |-> <<>>,
         plan |-> <<>>, ok |-> FALSE, resp |-> NoMd,
         files0 |-> EmptyMap, dirs0 |-> EmptyMap]

NoEvent == [ev |-> "none", t |-> "none", ok |-> FALSE, path |-> Root, key |-> <<>>,
            resp |-> NoMd, active |-> {}, hit |-> FALSE, plan |-> <<>>,
            sel |-> <<>>, live |-> <<>>, load |-> EmptyMap, evicted |-> {},
            lru |-> <<>>, full |-> FALSE, fresh |-> FALSE, contents |-> {},
            nodes |-> <<>>, data |-> <<>>, deleted_files |-> 0,
            deleted_directories |-> 0]

Event(ev, t, ok, r) ==
  [NoEvent EXCEPT !.ev = ev, !.t = t, !.ok = ok, !.path = thr[t].path,
                  !.key = thr[t].key, !.resp = r, !.active = thr[t].active,
                  !.plan = thr[t].plan]

\* A handler returns: the response goes to the environment, or waits for the
\* client that sent the request.
Returned(t, ok, r) ==
  IF thr[t].caller = "env" THEN Idle
  ELSE [thr[t] EXCEPT !.pc = "done", !.ok = ok, !.resp = r]

\* ---------------------------------------------------------- membership map
LiveKeys == [i \in 1..Len(datanodes) |-> datanodes[i].addr]
LiveSet == Range(LiveKeys)

\* self.datanodes[addr] = datetime.now(): an existing key keeps its place.
SetHeartbeat(dn, addr, t) ==
  IF \E i \in 1..Len(dn) : dn[i].addr = addr
    THEN [i \in 1..Len(dn) |-> IF dn[i].addr = addr THEN [addr |-> addr, hb |-> t] ELSE dn[i]]
    ELSE Append(dn, [addr |-> addr, hb |-> t])

KeepAddr(dn, dead) == SelectSeq(dn, LAMBDA e : e.addr \notin dead)

\* ------------------------------------------------------------- path_exists
\* The first test of path_exists alone: hexists('directories', path).
path_exists_dirs_only(path) == normalize_path(path) \in DOMAIN directories

\* NameNode.path_exists: hexists('directories', path), then
\* hexists('files', path_to_key(path)).
path_exists(path) ==
  LET p == normalize_path(path) IN
    p \in DOMAIN directories \/ path_to_key(p) \in DOMAIN files

\* ------------------------------------------------- membership and liveness
\* handle_datanode_registration "register": NameNode.register_datanode.
Register(n) ==
  /\ n \in up
  /\ datanodes' = SetHeartbeat(datanodes, n, now)
  /\ last' = NoEvent
  /\ UNCHANGED <<directories, files, metadata_cache, objs, datanode_load,
                 dir_lock, now, thr, mon, budget, recency, scope>>
  /\ UNCHANGED evars

\* handle_datanode_registration "heartbeat": NameNode.update_heartbeat refreshes
\* a known address and registers an unknown one.
Heartbeat(n) ==
  /\ n \in up
  /\ datanodes' = SetHeartbeat(datanodes, n, now)
  /\ last' = NoEvent
  /\ UNCHANGED <<directories, files, metadata_cache, objs, datanode_load,
                 dir_lock, now, thr, mon, budget, recency, scope>>
  /\ UNCHANGED evars

\* handle_datanode_registration "get_datanodes": the keys of self.datanodes,
\* read under datanodes_lock.
GetDatanodes ==
  /\ last' = [NoEvent EXCEPT !.ev = "get_datanodes", !.ok = TRUE,
                             !.nodes = LiveKeys]
  /\ UNCHANGED <<directories, files, metadata_cache, objs, datanodes,
                 datanode_load, dir_lock, now, thr, mon, budget, recency, scope>>
  /\ UNCHANGED evars

\* handle_datanode_registration "get_datanode": random.choice of the keys, or
\* "no_datanode_available".
GetDatanode ==
  /\ IF LiveSet = {}
       THEN last' = [NoEvent EXCEPT !.ev = "get_datanode"]
       ELSE \E n \in LiveSet :
              last' = [NoEvent EXCEPT !.ev = "get_datanode", !.ok = TRUE,
                                      !.nodes = <<n>>]
  /\ UNCHANGED <<directories, files, metadata_cache, objs, datanodes,
                 datanode_load, dir_lock, now, thr, mon, budget, recency, scope>>
  /\ UNCHANGED evars

\* Time passes: one step is long enough for a silent node to time out.
TickStep == heartbeat_timeout + 1
Tick ==
  /\ now + TickStep <= MaxTime
  /\ now' = now + TickStep
  /\ last' = NoEvent
  /\ UNCHANGED <<directories, files, metadata_cache, objs, datanodes,
                 datanode_load, dir_lock, thr, mon, budget, recency, scope>>
  /\ UNCHANGED evars

\* NameNode.monitor_heartbeats, first half: snapshot the map, collect the nodes
\* whose last heartbeat is older than heartbeat_timeout.
DeadNodes(dn, current_time) ==
  {dn[i].addr : i \in {j \in 1..Len(dn) : current_time - dn[j].hb > heartbeat_timeout}}

MonitorScan ==
  /\ mon.pc = "sleep"
  /\ DeadNodes(datanodes, now) # {}
  /\ mon' = [pc |-> "remove", dead |-> DeadNodes(datanodes, now)]
  /\ last' = NoEvent
  /\ UNCHANGED <<directories, files, metadata_cache, objs, datanodes,
                 datanode_load, dir_lock, now, thr, budget, recency, scope>>
  /\ UNCHANGED evars

\* second half: delete every collected node that is still in the map.
MonitorRemove ==
  /\ mon.pc = "remove"
  /\ datanodes' = KeepAddr(datanodes, mon.dead)
  /\ mon' = [pc |-> "sleep", dead |-> {}]
  /\ last' = NoEvent
  /\ UNCHANGED <<directories, files, metadata_cache, objs, datanode_load,
                 dir_lock, now, thr, budget, recency, scope>>
  /\ UNCHANGED evars

Spend(kind) == [budget EXCEPT ![kind] = @ - 1]

\* ------------------------------------------------------------ exists, ls
\* handle_datanode_registration "exists": path_exists of the path as sent, no
\* lock taken.
Exists(t) ==
  /\ thr[t].pc = "idle"
  /\ budget["exists"] > 0
  /\ \E p \in scope.queries :
       last' = [NoEvent EXCEPT !.ev = "exists", !.t = t, !.path = p,
                               !.ok = path_exists(p)]
  /\ budget' = Spend("exists")
  /\ UNCHANGED <<directories, files, metadata_cache, objs, datanodes,
                 datanode_load, dir_lock, now, thr, mon, recency, scope>>
  /\ UNCHANGED evars

\* NameNode.list_directory: None when 'directories' has no record for the
\* path, else an entry per child (its recorded type) and then an entry per file
\* with its recorded size.
list_directory(path) ==
  LET p == normalize_path(path) IN
    IF p \notin DOMAIN directories THEN [ok |-> FALSE, contents |-> {}]
    ELSE [ok |-> TRUE,
          contents |->
            {[name |-> n, type |-> "directory", size |-> 0] :
               n \in DOMAIN directories[p].children}
            \cup {[name |-> n, type |-> "file",
                   size |-> directories[p].files[n].size] :
                    n \in DOMAIN directories[p].files}]

\* handle_datanode_registration "ls": list_directory takes dir_lock, reads the
\* record and releases the lock.
Ls(t) ==
  /\ thr[t].pc = "idle"
  /\ budget["ls"] > 0
  /\ dir_lock = "free"
  /\ \E p \in scope.queries :
       last' = [NoEvent EXCEPT !.ev = "ls", !.t = t, !.path = normalize_path(p),
                               !.ok = list_directory(p).ok,
                               !.contents = list_directory(p).contents]
  /\ budget' = Spend("ls")
  /\ UNCHANGED <<directories, files, metadata_cache, objs, datanodes,
                 datanode_load, dir_lock, now, thr, mon, recency, scope>>
  /\ UNCHANGED evars

\* ------------------------------------------------------------------ mkdir
\* handle_datanode_registration "mkdir" -> NameNode.create_directory: normalise,
\* take dir_lock, "if self.path_exists(path): return False".
BeginMkdir(t) ==
  /\ thr[t].pc = "idle"
  /\ budget["mkdir"] > 0
  /\ dir_lock = "free"
  /\ \E p \in scope.mkdirs :
       LET path == normalize_path(p)
           me == [Idle EXCEPT !.pc = "mkdir_create", !.op = "mkdir", !.path = path]
       IN IF path_exists(path)
            THEN /\ thr' = [thr EXCEPT ![t] = Idle]
                 /\ last' = [NoEvent EXCEPT !.ev = "mkdir", !.t = t, !.path = path]
                 /\ UNCHANGED dir_lock
            ELSE /\ thr' = [thr EXCEPT ![t] = me]
                 /\ last' = NoEvent
                 /\ dir_lock' = t
  /\ budget' = Spend("mkdir")
  /\ UNCHANGED <<directories, files, metadata_cache, objs, datanodes,
                 datanode_load, now, mon, recency, scope>>
  /\ UNCHANGED evars

\* A create_directory that links the name into the parent's children and
\* never saves the record of the new directory.
DirsAfterMkdir_link_only(dirs, path, t) ==
  LET parent_path == get_parent_path(path)
  IN IF parent_path # NoPath /\ parent_path \in DOMAIN dirs
       THEN [dirs EXCEPT ![parent_path].children = MapPut(@, basename(path), t)]
       ELSE dirs

\* The record create_directory leaves in 'directories' for path.
DirsAfterMkdir(dirs, path, t) ==
  LET parent_path == get_parent_path(path)
      saved == MapPut(dirs, path, NewDir(t))
  IN IF parent_path # NoPath /\ parent_path \in DOMAIN saved
       THEN [saved EXCEPT ![parent_path].children = MapPut(@, basename(path), t)]
       ELSE saved

\* NameNode.create_directory, under dir_lock: the parent check, the save of the
\* new record and the link into the parent's children.
MkdirCreate(t) ==
  /\ thr[t].pc = "mkdir_create"
  /\ dir_lock = t
  /\ LET path == thr[t].path
         parent_path == get_parent_path(path)
     IN IF parent_path # NoPath /\ ~path_exists(parent_path)
          THEN /\ last' = Event("mkdir", t, FALSE, NoMd)
               /\ thr' = [thr EXCEPT ![t] = Returned(t, FALSE, NoMd)]
               /\ UNCHANGED directories
          ELSE /\ directories' = DirsAfterMkdir(directories, path, now)
               /\ last' = Event("mkdir", t, TRUE, NoMd)
               /\ thr' = [thr EXCEPT ![t] = Returned(t, TRUE, NoMd)]
  /\ dir_lock' = "free"
  /\ UNCHANGED <<files, metadata_cache, objs, datanodes, datanode_load, now,
                 mon, budget, recency, scope>>
  /\ UNCHANGED evars

\* ---------------------------------------------------------- metadata cache
CacheKeys(cache) == {cache[i].key : i \in 1..Len(cache)}
CacheObj(cache, file_key) == (CHOOSE e \in Range(cache) : e.key = file_key).obj
WithoutKey(cache, file_key) == SelectSeq(cache, LAMBDA e : e.key # file_key)

\* An insertion that drops the newest entry of a full cache instead of the
\* oldest; the LRU property must tell it from the code's.
cache_metadata_pop_last(cache, file_key, obj) ==
  IF file_key \in CacheKeys(cache)
    THEN Append(WithoutKey(cache, file_key), [key |-> file_key, obj |-> obj])
  ELSE IF Len(cache) >= max_cache_size
    THEN Append(Front(cache), [key |-> file_key, obj |-> obj])
  ELSE Append(cache, [key |-> file_key, obj |-> obj])

\* NameNode.cache_metadata: re-insert an existing key at the end, else evict the
\* first entry when the cache is full, then insert at the end.
cache_metadata(cache, file_key, obj) ==
  IF file_key \in CacheKeys(cache)
    THEN Append(WithoutKey(cache, file_key), [key |-> file_key, obj |-> obj])
  ELSE IF Len(cache) >= max_cache_size
    THEN Append(Tail(cache), [key |-> file_key, obj |-> obj])
  ELSE Append(cache, [key |-> file_key, obj |-> obj])

\* NameNode.get_cached_metadata on a hit: pop the entry and insert it again.
get_cached_metadata(cache, file_key) ==
  Append(WithoutKey(cache, file_key),
         [key |-> file_key, obj |-> CacheObj(cache, file_key)])

\* self.metadata_cache.pop(file_key, None)
cache_pop(cache, file_key) == WithoutKey(cache, file_key)

Touch(order, file_key) == Append(SelectSeq(order, LAMBDA k : k # file_key), file_key)
\* The key of the cache that was inserted or hit longest ago.
LeastRecent(cache, order) ==
  LET cached == SelectSeq(order, LAMBDA k : k \in CacheKeys(cache)) IN
    IF cached = <<>> THEN <<>> ELSE Head(cached)

NewObj == Cardinality(DOMAIN objs) + 1

\* What a cache insertion shows: the keys it dropped, the least recent key
\* before it, whether the cache was full and the key new.
CacheEvent(t, file_key) ==
  [NoEvent EXCEPT !.ev = "cache_insert", !.t = t, !.key = file_key,
     !.evicted = CacheKeys(metadata_cache)
                   \ CacheKeys(cache_metadata(metadata_cache, file_key, NewObj)),
     !.lru = LeastRecent(metadata_cache, recency),
     !.full = Len(metadata_cache) >= max_cache_size,
     !.fresh = file_key \notin CacheKeys(metadata_cache)]

\* ---------------------------------------------------------------- placement
\* sorted(active_datanodes, key=lambda x: self.datanode_load[x]): stable.
Rank(active, load, i) ==
  Cardinality({j \in 1..Len(active) :
                 \/ load[active[j]] < load[active[i]]
                 \/ load[active[j]] = load[active[i]] /\ j < i}) + 1

sorted_nodes(active, load) ==
  [k \in 1..Len(active) |->
     active[CHOOSE i \in 1..Len(active) : Rank(active, load, i) = k]]

\* A placement that takes the first nodes in registration order, whatever
\* their load; the placement property must tell it from the code's.
selected_nodes_unsorted(active, load) ==
  SubSeq(active, 1, IF Len(active) < num_replicas THEN Len(active) ELSE num_replicas)

\* NameNode.get_optimal_datanodes: sorted_nodes[:num_replicas]
selected_nodes(active, load) ==
  LET s == sorted_nodes(active, load) IN
    SubSeq(s, 1, IF Len(s) < num_replicas THEN Len(s) ELSE num_replicas)

\* for node in selected_nodes: self.datanode_load[node] += 1
load_after(load, selected) ==
  [n \in DOMAIN load |-> IF n \in Range(selected) THEN load[n] + 1 ELSE load[n]]

\* ----------------------------------------------------------- store_metadata
F(name, cwd) == [name |-> name, cwd |-> cwd]
\* "f" in "/", "f" in "/a", "/a/b/f", "g" in "/", "h" in "/"
File_f == F(RawName(FALSE, <<Cf>>), Root)
File_a_f == F(RawName(FALSE, <<Cf>>), <<Ca>>)
File_a_b_f == F(RawName(TRUE, <<Ca, Cb, Cf>>), Root)
File_g == F(RawName(FALSE, <<Cg>>), Root)
File_h == F(RawName(FALSE, <<Ch>>), Root)

\* NameNode.store_file_metadata: full_path of the request.
store_full_path(name, cwd) ==
  IF HasSlash(name) THEN normalize_path(name.comps)
  ELSE normalize_path(cwd) \o name.comps

store_filename(name, cwd) ==
  IF HasSlash(name) THEN basename(store_full_path(name, cwd)) ELSE name.comps[1]

\* store_file_metadata up to "if not active_datanodes: raise": the request is
\* refused when the membership map is empty.
StoreStart(t, caller, name, cwd, count, bsize) ==
  LET full_path == store_full_path(name, cwd)
      me == [Idle EXCEPT !.op = "store_metadata", !.caller = caller,
                         !.name = name, !.cwd = cwd, !.count = count,
                         !.bsize = bsize, !.path = full_path,
                         !.key = path_to_key(full_path),
                         !.pc = IF count > 0 THEN "store_place" ELSE "store_hset"]
  IN IF LiveKeys = <<>>
       THEN /\ thr' = [thr EXCEPT ![t] = IF caller = "env" THEN Idle
                                         ELSE [me EXCEPT !.pc = "done", !.ok = FALSE]]
            /\ last' = [NoEvent EXCEPT !.ev = "store_metadata", !.t = t,
                                       !.path = full_path, !.key = path_to_key(full_path)]
       ELSE /\ thr' = [thr EXCEPT ![t] = me]
            /\ last' = NoEvent

BeginStore(t) ==
  /\ thr[t].pc = "idle"
  /\ budget["store"] > 0
  /\ \E in \in scope.files, count \in scope.counts :
       StoreStart(t, "env", in.name, in.cwd, count, block_size)
  /\ budget' = Spend("store")
  /\ UNCHANGED <<directories, files, metadata_cache, objs, datanodes,
                 datanode_load, dir_lock, now, mon, recency, scope>>
  /\ UNCHANGED evars

\* A last block recorded as empty.
current_block_size_empty_last(i, block_count, bsize) ==
  IF i < block_count - 1 THEN bsize ELSE 0

\* current_block_size = block_size if i < block_count-1 else block_size//2
current_block_size(i, block_count, bsize) ==
  IF i < block_count - 1 THEN bsize ELSE bsize \div 2

\* One turn of "for i in range(block_count)": get_optimal_datanodes under
\* load_lock and datanodes_lock, then the block record.
StorePlace(t) ==
  /\ thr[t].pc = "store_place"
  /\ LET i == thr[t].i
         locations == selected_nodes(LiveKeys, datanode_load)
         block == [block_id |-> i,
                   size |-> current_block_size(i, thr[t].count, thr[t].bsize),
                   locations |-> locations, timestamp |-> now]
     IN /\ datanode_load' = load_after(datanode_load, locations)
        /\ thr' = [thr EXCEPT ![t].blocks = Append(@, block), ![t].i = i + 1,
                              ![t].pc = IF i + 1 < thr[t].count THEN "store_place"
                                        ELSE "store_hset"]
        /\ last' = [NoEvent EXCEPT !.ev = "place", !.t = t, !.sel = locations,
                                   !.live = LiveKeys, !.load = datanode_load]
  /\ UNCHANGED <<directories, files, metadata_cache, objs, datanodes, dir_lock,
                 now, mon, budget, recency, scope>>
  /\ UNCHANGED evars

\* sum(block['size'] for block in blocks), as the loop accumulates it
RECURSIVE SumSizes(_)
SumSizes(blocks) == IF blocks = <<>> THEN 0 ELSE Head(blocks).size + SumSizes(Tail(blocks))

file_metadata(t) ==
  [filename |-> store_filename(thr[t].name, thr[t].cwd), full_path |-> thr[t].path,
   storage_name |-> thr[t].key, blocks |-> thr[t].blocks,
   total_size |-> SumSizes(thr[t].blocks), creation_time |-> now]

\* self.redis_client.hset('files', file_key, json.dumps(file_metadata))
StoreHset(t) ==
  /\ thr[t].pc = "store_hset"
  /\ files' = MapPut(files, thr[t].key, file_metadata(t))
  /\ thr' = [thr EXCEPT ![t].md = file_metadata(t), ![t].pc = "store_cache"]
  /\ last' = NoEvent
  /\ UNCHANGED <<directories, metadata_cache, objs, datanodes, datanode_load,
                 dir_lock, now, mon, budget, recency, scope>>
  /\ UNCHANGED evars

\* self.cache_metadata(file_key, file_metadata)
StoreCache(t) ==
  /\ thr[t].pc = "store_cache"
  /\ metadata_cache' = cache_metadata(metadata_cache, thr[t].key, NewObj)
  /\ objs' = MapPut(objs, NewObj, thr[t].md)
  /\ recency' = Touch(recency, thr[t].key)
  /\ thr' = [thr EXCEPT ![t].pc = "store_register"]
  /\ last' = CacheEvent(t, thr[t].key)
  /\ UNCHANGED <<directories, files, datanodes, datanode_load, dir_lock, now,
                 mon, budget, scope>>
  /\ UNCHANGED evars

\* NameNode.register_file_in_directory: the parent's record with the file in it
\* (a missing parent record is made up on the spot).
DirsAfterRegister(dirs, full_path, md) ==
  LET file_path == normalize_path(full_path)
      parent_path == IF get_parent_path(file_path) = NoPath THEN Root
                     ELSE get_parent_path(file_path)
      parent_data == IF parent_path \in DOMAIN dirs THEN dirs[parent_path]
                     ELSE NewDir(now)
      entry == [created |-> md.creation_time, size |-> md.total_size]
  IN MapPut(dirs, parent_path,
            [parent_data EXCEPT !.files = MapPut(@, basename(file_path), entry)])

\* self.register_file_in_directory(full_path, file_metadata); return True
StoreRegister(t) ==
  /\ thr[t].pc = "store_register"
  /\ dir_lock = "free"
  /\ directories' = DirsAfterRegister(directories, thr[t].path, thr[t].md)
  /\ thr' = [thr EXCEPT ![t] = Returned(t, TRUE, NoMd)]
  /\ last' = Event("store_metadata", t, TRUE, thr[t].md)
  /\ UNCHANGED <<files, metadata_cache, objs, datanodes, datanode_load,
                 dir_lock, now, mon, budget, recency, scope>>
  /\ UNCHANGED evars

\* ------------------------------------------------------------- get_metadata
\* NameNode.get_file_full_path: the path the name resolves to, or None.
get_file_full_path(name, cwd) ==
  LET current_dir == normalize_path(cwd)
      full_path == IF HasSlash(name)
                     THEN (IF name.abs THEN normalize_path(name.comps)
                           ELSE normalize_path(path_join(current_dir, name)))
                     ELSE path_join(current_dir, name)
  IN IF path_exists(full_path) THEN full_path ELSE NoPath

\* [loc for loc in block['locations'] if loc in active_datanodes]
live_locations(locations, active) == SelectSeq(locations, LAMBDA loc : loc \in active)

\* get_file_metadata up to "if not full_path: return None".
GetStart(t, caller, name, cwd) ==
  LET full_path == get_file_full_path(name, cwd)
      me == [Idle EXCEPT !.op = "get_metadata", !.caller = caller, !.name = name,
                         !.cwd = cwd, !.path = full_path,
                         !.key = path_to_key(full_path), !.pc = "get_cache"]
  IN IF full_path = NoPath
       THEN /\ thr' = [thr EXCEPT ![t] = IF caller = "env" THEN Idle
                                         ELSE [me EXCEPT !.pc = "done", !.ok = FALSE]]
            /\ last' = [NoEvent EXCEPT !.ev = "get_metadata", !.t = t]
       ELSE /\ thr' = [thr EXCEPT ![t] = me]
            /\ last' = NoEvent

BeginGet(t) ==
  /\ thr[t].pc = "idle"
  /\ budget["get"] > 0
  /\ \E in \in scope.files : GetStart(t, "env", in.name, in.cwd)
  /\ budget' = Spend("get")
  /\ UNCHANGED <<directories, files, metadata_cache, objs, datanodes,
                 datanode_load, dir_lock, now, mon, recency, scope>>
  /\ UNCHANGED evars

\* cached_metadata = self.get_cached_metadata(file_key): on a hit the thread
\* holds the cached object itself.
GetCache(t) ==
  /\ thr[t].pc = "get_cache"
  /\ IF thr[t].key \in CacheKeys(metadata_cache)
       THEN /\ metadata_cache' = get_cached_metadata(metadata_cache, thr[t].key)
            /\ recency' = Touch(recency, thr[t].key)
            /\ thr' = [thr EXCEPT ![t].obj = CacheObj(metadata_cache, thr[t].key),
                                  ![t].pc = "get_live_hit"]
       ELSE /\ thr' = [thr EXCEPT ![t].pc = "get_hget"]
            /\ UNCHANGED <<metadata_cache, recency>>
  /\ last' = NoEvent
  /\ UNCHANGED <<directories, files, objs, datanodes, datanode_load, dir_lock,
                 now, mon, budget, scope>>
  /\ UNCHANGED evars

\* with self.datanodes_lock: active_datanodes = set(self.datanodes.keys())
GetLiveHit(t) ==
  /\ thr[t].pc = "get_live_hit"
  /\ thr' = [thr EXCEPT ![t].active = LiveSet, ![t].i = 0,
                        ![t].pc = IF objs[thr[t].obj].blocks = <<>> THEN "get_dumps"
                                  ELSE "get_filter"]
  /\ last' = NoEvent
  /\ UNCHANGED <<directories, files, metadata_cache, objs, datanodes,
                 datanode_load, dir_lock, now, mon, budget, recency, scope>>
  /\ UNCHANGED evars

\* The list comprehension over the cached block's locations.
GetFilter(t) ==
  /\ thr[t].pc = "get_filter"
  /\ thr' = [thr EXCEPT ![t].tmp = live_locations(
                            objs[thr[t].obj].blocks[thr[t].i + 1].locations,
                            thr[t].active),
                        ![t].pc = "get_assign"]
  /\ last' = NoEvent
  /\ UNCHANGED <<directories, files, metadata_cache, objs, datanodes,
                 datanode_load, dir_lock, now, mon, budget, recency, scope>>
  /\ UNCHANGED evars

\* block['locations'] = ...: the cached object itself is changed.
GetAssign(t) ==
  /\ thr[t].pc = "get_assign"
  /\ objs' = [objs EXCEPT ![thr[t].obj].blocks[thr[t].i + 1].locations = thr[t].tmp]
  /\ thr' = [thr EXCEPT ![t].pc = "get_checkloc"]
  /\ last' = NoEvent
  /\ UNCHANGED <<directories, files, metadata_cache, datanodes, datanode_load,
                 dir_lock, now, mon, budget, recency, scope>>
  /\ UNCHANGED evars

\* if not block['locations']: return None
GetCheckLoc(t) ==
  /\ thr[t].pc = "get_checkloc"
  /\ IF objs[thr[t].obj].blocks[thr[t].i + 1].locations = <<>>
       THEN /\ thr' = [thr EXCEPT ![t] = Returned(t, FALSE, NoMd)]
            /\ last' = [Event("get_metadata", t, FALSE, NoMd) EXCEPT !.hit = TRUE]
       ELSE /\ thr' = [thr EXCEPT ![t].i = @ + 1,
                          ![t].pc = IF thr[t].i + 1 < Len(objs[thr[t].obj].blocks)
                                      THEN "get_filter" ELSE "get_dumps"]
            /\ last' = NoEvent
  /\ UNCHANGED <<directories, files, metadata_cache, objs, datanodes,
                 datanode_load, dir_lock, now, mon, budget, recency, scope>>
  /\ UNCHANGED evars

\* metadata_json = self.redis_client.hget('files', file_key)
GetHget(t) ==
  /\ thr[t].pc = "get_hget"
  /\ IF thr[t].key \in DOMAIN files
       THEN /\ thr' = [thr EXCEPT ![t].md = files[thr[t].key], ![t].pc = "get_live_miss"]
            /\ last' = NoEvent
       ELSE /\ thr' = [thr EXCEPT ![t] = Returned(t, FALSE, NoMd)]
            /\ last' = Event("get_metadata", t, FALSE, NoMd)
  /\ UNCHANGED <<directories, files, metadata_cache, objs, datanodes,
                 datanode_load, dir_lock, now, mon, budget, recency, scope>>
  /\ UNCHANGED evars

FilterBlocks(blocks, active) ==
  [i \in 1..Len(blocks) |->
     [blocks[i] EXCEPT !.locations = live_locations(blocks[i].locations, active)]]

\* The snapshot of the live set and the filter of the thread's own copy.
GetLiveMiss(t) ==
  /\ thr[t].pc = "get_live_miss"
  /\ LET filtered == FilterBlocks(thr[t].md.blocks, LiveSet) IN
       IF \E i \in 1..Len(filtered) : filtered[i].locations = <<>>
         THEN /\ thr' = [thr EXCEPT ![t] = Returned(t, FALSE, NoMd)]
              /\ last' = [Event("get_metadata", t, FALSE, NoMd) EXCEPT !.active = LiveSet]
         ELSE /\ thr' = [thr EXCEPT ![t].md.blocks = filtered, ![t].active = LiveSet,
                                    ![t].pc = "get_cache_put"]
              /\ last' = NoEvent
  /\ UNCHANGED <<directories, files, metadata_cache, objs, datanodes,
                 datanode_load, dir_lock, now, mon, budget, recency, scope>>
  /\ UNCHANGED evars

\* self.cache_metadata(file_key, metadata): from here on the object is shared.
GetCachePut(t) ==
  /\ thr[t].pc = "get_cache_put"
  /\ metadata_cache' = cache_metadata(metadata_cache, thr[t].key, NewObj)
  /\ objs' = MapPut(objs, NewObj, thr[t].md)
  /\ recency' = Touch(recency, thr[t].key)
  /\ thr' = [thr EXCEPT ![t].obj = NewObj, ![t].md = NoMd, ![t].i = -1,
                        ![t].pc = "get_dumps"]
  /\ last' = CacheEvent(t, thr[t].key)
  /\ UNCHANGED <<directories, files, datanodes, datanode_load, dir_lock, now,
                 mon, budget, scope>>
  /\ UNCHANGED evars

\* return json.dumps(cached_metadata) / json.dumps(metadata)
GetDumps(t) ==
  /\ thr[t].pc = "get_dumps"
  /\ thr' = [thr EXCEPT ![t] = Returned(t, TRUE, objs[thr[t].obj])]
  /\ last' = [Event("get_metadata", t, TRUE, objs[thr[t].obj])
                EXCEPT !.hit = thr[t].i >= 0]
  /\ UNCHANGED <<directories, files, metadata_cache, objs, datanodes,
                 datanode_load, dir_lock, now, mon, budget, recency, scope>>
  /\ UNCHANGED evars

\* -------------------------------------------------------------- delete_file
\* The deletion plan's entries for one file's metadata.
blocks_info(md) ==
  [i \in 1..Len(md.blocks) |->
     [block_id |-> md.blocks[i].block_id, locations |-> md.blocks[i].locations,
      storage_name |-> md.storage_name]]

\* NameNode.delete_file up to "if not full_path: return False".
BeginDeleteFile(t) ==
  /\ thr[t].pc = "idle"
  /\ budget["delete_file"] > 0
  /\ \E in \in scope.files :
       LET full_path == get_file_full_path(in.name, in.cwd)
           me == [Idle EXCEPT !.op = "delete_file", !.name = in.name, !.cwd = in.cwd,
                              !.path = full_path, !.key = path_to_key(full_path),
                              !.pc = "del_hget", !.files0 = files,
                              !.dirs0 = directories]
       IN IF full_path = NoPath
            THEN /\ thr' = [thr EXCEPT ![t] = Idle]
                 /\ last' = [NoEvent EXCEPT !.ev = "delete_file", !.t = t]
            ELSE /\ thr' = [thr EXCEPT ![t] = me]
                 /\ last' = NoEvent
  /\ budget' = Spend("delete_file")
  /\ UNCHANGED <<directories, files, metadata_cache, objs, datanodes,
                 datanode_load, dir_lock, now, mon, recency, scope>>
  /\ UNCHANGED evars

\* with self.dir_lock: metadata_json = hget('files', file_key)
DelHget(t) ==
  /\ thr[t].pc = "del_hget"
  /\ dir_lock = "free"
  /\ IF thr[t].key \in DOMAIN files
       THEN /\ thr' = [thr EXCEPT ![t].md = files[thr[t].key], ![t].pc = "del_unlink"]
            /\ dir_lock' = t
            /\ last' = NoEvent
       ELSE /\ thr' = [thr EXCEPT ![t] = Returned(t, FALSE, NoMd)]
            /\ UNCHANGED dir_lock
            /\ last' = Event("delete_file", t, FALSE, NoMd)
  /\ UNCHANGED <<directories, files, metadata_cache, objs, datanodes,
                 datanode_load, now, mon, budget, recency, scope>>
  /\ UNCHANGED evars

\* parent_data['files'].pop(actual_filename, None); save_directory_data
DirsAfterUnlink(dirs, full_path) ==
  LET parent_path == get_parent_path(full_path)
      p == normalize_path(parent_path)
  IN IF parent_path # NoPath /\ p \in DOMAIN dirs
       THEN [dirs EXCEPT ![p].files = MapDel(@, basename(full_path))]
       ELSE dirs

DelUnlink(t) ==
  /\ thr[t].pc = "del_unlink"
  /\ directories' = DirsAfterUnlink(directories, thr[t].path)
  /\ thr' = [thr EXCEPT ![t].pc = "del_hdel"]
  /\ last' = NoEvent
  /\ UNCHANGED <<files, metadata_cache, objs, datanodes, datanode_load,
                 dir_lock, now, mon, budget, recency, scope>>
  /\ UNCHANGED evars

\* self.redis_client.hdel('files', file_key)
DelHdel(t) ==
  /\ thr[t].pc = "del_hdel"
  /\ files' = MapDel(files, thr[t].key)
  /\ thr' = [thr EXCEPT ![t].pc = "del_cache"]
  /\ last' = NoEvent
  /\ UNCHANGED <<directories, metadata_cache, objs, datanodes, datanode_load,
                 dir_lock, now, mon, budget, recency, scope>>
  /\ UNCHANGED evars

\* with self.cache_lock: self.metadata_cache.pop(file_key, None)
DelCachePop(t) ==
  /\ thr[t].pc = "del_cache"
  /\ metadata_cache' = cache_pop(metadata_cache, thr[t].key)
  /\ thr' = [thr EXCEPT ![t].pc = "del_return"]
  /\ last' = NoEvent
  /\ UNCHANGED <<directories, files, objs, datanodes, datanode_load, dir_lock,
                 now, mon, budget, recency, scope>>
  /\ UNCHANGED evars

\* return True, blocks_info: the function returns and dir_lock is released.
DelReturn(t) ==
  /\ thr[t].pc = "del_return"
  /\ dir_lock' = "free"
  /\ thr' = [thr EXCEPT ![t] = Returned(t, TRUE, NoMd)]
  /\ last' = [Event("delete_file", t, TRUE, NoMd) EXCEPT !.plan = blocks_info(thr[t].md)]
  /\ UNCHANGED <<directories, files, metadata_cache, objs, datanodes,
                 datanode_load, now, mon, budget, recency, scope>>
  /\ UNCHANGED evars

\* --------------------------------------------------------- delete_directory
\* Some enumeration of a finite set (the order a dict happens to iterate in).
SetToSeq(S) == CHOOSE s \in [1..Cardinality(S) -> S] : Range(s) = S

RECURSIVE Concat(_)
Concat(ss) == IF ss = <<>> THEN <<>> ELSE Head(ss) \o Concat(Tail(ss))

\* NameNode.get_directory_contents_recursive.collect_items: the file paths.
RECURSIVE collect_files(_, _)
collect_files(dirs, current_path) ==
  IF current_path \notin DOMAIN dirs THEN <<>>
  ELSE LET names == SetToSeq(DOMAIN dirs[current_path].files)
           subs == SetToSeq(DOMAIN dirs[current_path].children)
       IN [i \in 1..Len(names) |-> normalize_path(Append(current_path, names[i]))]
          \o Concat([i \in 1..Len(subs) |->
                       collect_files(dirs, normalize_path(Append(current_path, subs[i])))])

\* ... and the directory paths.
RECURSIVE collect_dirs(_, _)
collect_dirs(dirs, current_path) ==
  IF current_path \notin DOMAIN dirs THEN <<>>
  ELSE LET subs == SetToSeq(DOMAIN dirs[current_path].children)
       IN Concat([i \in 1..Len(subs) |->
                    <<normalize_path(Append(current_path, subs[i]))>>
                    \o collect_dirs(dirs, normalize_path(Append(current_path, subs[i])))])

\* A delete_directory that tests nothing before it goes on.
is_root_never(path) == FALSE

\* if path == "/": return False
is_root(path) == path = Root

\* NameNode.delete_directory up to "if not self.path_exists(path)": the root
\* is refused before the lock is taken.
BeginDeleteDir(t) ==
  /\ thr[t].pc = "idle"
  /\ budget["delete_directory"] > 0
  /\ \E p \in scope.rmdirs :
       LET path == normalize_path(p)
           me == [Idle EXCEPT !.op = "delete_directory", !.path = path,
                              !.pc = "dd_collect", !.files0 = files,
                              !.dirs0 = directories]
           refused == [NoEvent EXCEPT !.ev = "delete_directory", !.t = t, !.path = path]
       IN IF is_root(path)
            THEN /\ thr' = [thr EXCEPT ![t] = Idle]
                 /\ last' = refused
                 /\ UNCHANGED dir_lock
            ELSE /\ dir_lock = "free"
                 /\ IF path_exists(path)
                      THEN /\ thr' = [thr EXCEPT ![t] = me]
                           /\ last' = NoEvent
                           /\ dir_lock' = t
                      ELSE /\ thr' = [thr EXCEPT ![t] = Idle]
                           /\ last' = refused
                           /\ UNCHANGED dir_lock
  /\ budget' = Spend("delete_directory")
  /\ UNCHANGED <<directories, files, metadata_cache, objs, datanodes,
                 datanode_load, now, mon, recency, scope>>
  /\ UNCHANGED evars

\* contents = self.get_directory_contents_recursive(path)
DdCollect(t) ==
  /\ thr[t].pc = "dd_collect"
  /\ LET cfiles == collect_files(directories, thr[t].path) IN
       thr' = [thr EXCEPT ![t].cfiles = cfiles,
                          ![t].cdirs = collect_dirs(directories, thr[t].path),
                          ![t].i = 1,
                          ![t].pc = IF cfiles = <<>> THEN "dd_dirs" ELSE "dd_hget"]
  /\ last' = NoEvent
  /\ UNCHANGED <<directories, files, metadata_cache, objs, datanodes,
                 datanode_load, dir_lock, now, mon, budget, recency, scope>>
  /\ UNCHANGED evars

\* for file_path in contents['files']: metadata_json = hget('files', file_key)
DdHget(t) ==
  /\ thr[t].pc = "dd_hget"
  /\ LET file_key == path_to_key(thr[t].cfiles[thr[t].i]) IN
       thr' = [thr EXCEPT ![t].plan = IF file_key \in DOMAIN files
                                        THEN @ \o blocks_info(files[file_key]) ELSE @,
                          ![t].pc = "dd_hdel"]
  /\ last' = NoEvent
  /\ UNCHANGED <<directories, files, metadata_cache, objs, datanodes,
                 datanode_load, dir_lock, now, mon, budget, recency, scope>>
  /\ UNCHANGED evars

\* self.redis_client.hdel('files', file_key)
DdHdel(t) ==
  /\ thr[t].pc = "dd_hdel"
  /\ files' = MapDel(files, path_to_key(thr[t].cfiles[thr[t].i]))
  /\ thr' = [thr EXCEPT ![t].pc = "dd_cache"]
  /\ last' = NoEvent
  /\ UNCHANGED <<directories, metadata_cache, objs, datanodes, datanode_load,
                 dir_lock, now, mon, budget, recency, scope>>
  /\ UNCHANGED evars

\* with self.cache_lock: self.metadata_cache.pop(file_key, None)
DdCachePop(t) ==
  /\ thr[t].pc = "dd_cache"
  /\ metadata_cache' = cache_pop(metadata_cache, path_to_key(thr[t].cfiles[thr[t].i]))
  /\ thr' = [thr EXCEPT ![t].i = @ + 1,
                        ![t].pc = IF thr[t].i < Len(thr[t].cfiles) THEN "dd_hget"
                                  ELSE "dd_dirs"]
  /\ last' = NoEvent
  /\ UNCHANGED <<directories, files, objs, datanodes, datanode_load, dir_lock,
                 now, mon, budget, recency, scope>>
  /\ UNCHANGED evars

\* hdel every collected directory and the path itself, then unlink the path
\* from its parent's children.
DirsAfterDelete(dirs, path, cdirs) ==
  LET all_dirs == Range(cdirs) \cup {path}
      kept == [p \in (DOMAIN dirs) \ all_dirs |-> dirs[p]]
      parent_path == get_parent_path(path)
  IN IF parent_path # NoPath /\ parent_path \in DOMAIN kept
       THEN [kept EXCEPT ![parent_path].children = MapDel(@, basename(path))]
       ELSE kept

\* The directory records go, the function returns and dir_lock is released.
DdDirs(t) ==
  /\ thr[t].pc = "dd_dirs"
  /\ directories' = DirsAfterDelete(directories, thr[t].path, thr[t].cdirs)
  /\ dir_lock' = "free"
  /\ thr' = [thr EXCEPT ![t] = Returned(t, TRUE, NoMd)]
  /\ last' = [Event("delete_directory", t, TRUE, NoMd) EXCEPT
                !.deleted_files = Len(thr[t].cfiles),
                !.deleted_directories = Len(thr[t].cdirs) + 1]
  /\ UNCHANGED <<files, metadata_cache, objs, datanodes, datanode_load, now,
                 mon, budget, recency, scope>>
  /\ UNCHANGED evars

\* ------------------------------------------------------------ block servers
\* The file name of a block in a server's data directory.
BlockName(storage_name, block_id) == <<storage_name, block_id>>

\* ------------------------------------- block server handlers, step by step
\* The block server handler threads of the step-by-step model.
Writers == {"w1", "w2"}

DnIdle == [pc |-> "idle", kind |-> "none", node |-> "none", name |-> <<>>,
           data |-> <<>>, fd |-> "none", reply |-> "none"]

\* A block server process stops: its threads die, its data directory stays.
Crash(n) ==
  /\ n \in up
  /\ budget["crash"] > 0
  /\ up' = up \ {n}
  /\ repl' = {r \in repl : r.src # n}
  /\ dnthr' = [w \in Writers |-> IF dnthr[w].node = n THEN DnIdle ELSE dnthr[w]]
  /\ budget' = Spend("crash")
  /\ last' = NoEvent
  /\ UNCHANGED <<directories, files, metadata_cache, objs, datanodes,
                 datanode_load, dir_lock, now, thr, mon, scope, recency>>
  /\ UNCHANGED <<disk, cl, acked, written, probe, tmpf, lk, beat>>

\* DataNode.handle_write_block after the block is on disk and 'success' is
\* sent: the replication thread it starts.
NewReplication(n, name, data) ==
  [src |-> n, name |-> name, data |-> data, pc |-> "pick", targets |-> {},
   node |-> "none", attempt |-> 0]

\* A sample that may hold the sending block server itself.
replication_samples_with_self(src, nodes) ==
  LET k == IF Cardinality(nodes) < replication_factor - 1
             THEN Cardinality(nodes) ELSE replication_factor - 1
  IN {S \in SUBSET nodes : Cardinality(S) = k}

\* DataNode.replicate_block: the peers it may sample from the coordinator's
\* answer to get_datanodes.
replication_samples(src, nodes) ==
  LET available_nodes == nodes \ {src}
      k == IF Cardinality(available_nodes) < replication_factor - 1
             THEN Cardinality(available_nodes) ELSE replication_factor - 1
  IN {S \in SUBSET available_nodes : Cardinality(S) = k}

ReplPick(r) ==
  /\ r \in repl
  /\ r.pc = "pick"
  /\ \E S \in replication_samples(r.src, LiveSet) :
       repl' = IF S = {} THEN repl \ {r}
               ELSE (repl \ {r}) \cup {[r EXCEPT !.pc = "send", !.targets = S]}
  /\ last' = NoEvent
  /\ UNCHANGED <<directories, files, metadata_cache, objs, datanodes,
                 datanode_load, dir_lock, now, thr, mon, budget, scope, recency>>
  /\ UNCHANGED <<up, disk, cl, acked, written, probe, dnthr, tmpf, lk, beat>>

\* "for node in replication_nodes" is done with node, sent to or given up:
\* the thread goes on to the next one, or ends after the last.
NextPeer(r, node) ==
  IF r.targets = {node} THEN repl \ {r}
  ELSE (repl \ {r}) \cup {[r EXCEPT !.targets = @ \ {node}, !.node = "none",
                                    !.attempt = 0]}

\* One attempt of send_replica_to_node_with_retry (send_retries attempts per
\* peer) and the peer's handle_replicate_block: a running peer writes the
\* block file and answers; a stopped one refuses the connection.
ReplSend(r) ==
  /\ r \in repl
  /\ r.pc = "send"
  /\ \E node \in (IF r.node = "none" THEN r.targets ELSE {r.node}) :
       IF node \in up
         THEN /\ disk' = [disk EXCEPT ![node] = MapPut(@, r.name, r.data)]
              /\ repl' = NextPeer(r, node)
         ELSE /\ UNCHANGED disk
              /\ repl' = IF r.attempt + 1 >= send_retries THEN NextPeer(r, node)
                         ELSE (repl \ {r}) \cup {[r EXCEPT !.node = node,
                                                           !.attempt = @ + 1]}
  /\ last' = NoEvent
  /\ UNCHANGED <<directories, files, metadata_cache, objs, datanodes,
                 datanode_load, dir_lock, now, thr, mon, budget, scope, recency>>
  /\ UNCHANGED <<up, cl, acked, written, probe, dnthr, tmpf, lk, beat>>

\* f.write(block_data) at offset 0 of a file that holds c.
Overlay(c, data) == data \o SubSeq(c, Len(data) + 1, Len(c))

\* A block server that starts a replication thread for whatever it stores.
starts_replication_always(kind) == TRUE

\* Only handle_write_block starts a replication thread;
\* handle_replicate_block answers and returns.
starts_replication(kind) == kind = "write_block"

\* A handle_write_block that starts its replication thread as soon as the
\* temp file is written.
after_write_spawn_first(kind) == IF kind = "write_block" THEN "spawn" ELSE "ack"

\* After the data is written: atomic_write_block goes on to os.replace,
\* handle_replicate_block to its answer.
after_write(kind) == IF kind = "write_block" THEN "replace" ELSE "ack"

\* The other handler threads that hold an open file on the temp file
\* (fd "tmp") or on the block file (fd "block") of w's block.
SameFile(w, fd) ==
  {v \in Writers \ {w} : /\ dnthr[v].node = dnthr[w].node
                          /\ dnthr[v].name = dnthr[w].name
                          /\ dnthr[v].fd = fd}

\* handle_connection: a write_block or replicate_block command and its data
\* have been received by a new handler thread.
DnBegin(w) ==
  /\ dnthr[w].pc = "idle"
  /\ budget["dnwrite"] > 0
  /\ \E n \in scope.dnodes \cap up, kind \in scope.kinds, b \in scope.blocks :
       dnthr' = [dnthr EXCEPT ![w] =
                   [DnIdle EXCEPT !.pc = "open", !.kind = kind, !.node = n,
                                  !.name = b.name, !.data = b.data]]
  /\ budget' = Spend("dnwrite")
  /\ last' = NoEvent
  /\ UNCHANGED <<directories, files, metadata_cache, objs, datanodes,
                 datanode_load, dir_lock, now, thr, mon, scope, recency>>
  /\ UNCHANGED <<up, disk, repl, cl, acked, written, probe, tmpf, lk, beat>>

\* atomic_write_block: open(temp_path, 'wb') creates the temp file or
\* truncates the one that is there. handle_replicate_block:
\* open(block_path, 'wb') does the same to the block file itself.
DnOpen(w) ==
  /\ dnthr[w].pc = "open"
  /\ dnthr[w].node \in up
  /\ LET n == dnthr[w].node
         name == dnthr[w].name
     IN IF dnthr[w].kind = "write_block"
          THEN /\ tmpf' = MapPut(tmpf, <<n, name>>, <<>>)
               /\ dnthr' = [dnthr EXCEPT ![w].pc = "write", ![w].fd = "tmp"]
               /\ UNCHANGED disk
          ELSE /\ disk' = [disk EXCEPT ![n] = MapPut(@, name, <<>>)]
               /\ dnthr' = [dnthr EXCEPT ![w].pc = "write", ![w].fd = "block"]
               /\ UNCHANGED tmpf
  /\ last' = NoEvent
  /\ UNCHANGED <<directories, files, metadata_cache, objs, datanodes,
                 datanode_load, dir_lock, now, thr, mon, budget, scope, recency>>
  /\ UNCHANGED <<up, repl, cl, acked, written, probe, lk, beat>>

\* f.write(block_data) (with flush and fsync in atomic_write_block) and the
\* close at the end of the with block: the bytes go to the file the thread
\* opened, wherever that file is by now.
DnWrite(w) ==
  /\ dnthr[w].pc = "write"
  /\ dnthr[w].node \in up
  /\ LET n == dnthr[w].node
         name == dnthr[w].name
     IN CASE dnthr[w].fd = "tmp" ->
               /\ tmpf' = [tmpf EXCEPT ![<<n, name>>] = Overlay(@, dnthr[w].data)]
               /\ UNCHANGED disk
          [] dnthr[w].fd = "block" ->
               /\ disk' = [disk EXCEPT ![n][name] = Overlay(@, dnthr[w].data)]
               /\ UNCHANGED tmpf
          [] OTHER -> UNCHANGED <<disk, tmpf>>
  /\ dnthr' = [dnthr EXCEPT ![w].fd = "none", ![w].pc = after_write(dnthr[w].kind)]
  /\ last' = NoEvent
  /\ UNCHANGED <<directories, files, metadata_cache, objs, datanodes,
                 datanode_load, dir_lock, now, thr, mon, budget, scope, recency>>
  /\ UNCHANGED <<up, repl, cl, acked, written, probe, lk, beat>>

\* os.replace(temp_path, block_path): the temp file becomes the block file
\* (threads that still hold it open now write to the block file, threads that
\* hold the replaced block file open write to a file without a name); with no
\* temp file there it raises, and handle_write_block answers
\* "error: write failed".
DnReplace(w) ==
  /\ dnthr[w].pc = "replace"
  /\ dnthr[w].node \in up
  /\ LET n == dnthr[w].node
         name == dnthr[w].name
     IN IF <<n, name>> \in DOMAIN tmpf
          THEN /\ disk' = [disk EXCEPT ![n] = MapPut(@, name, tmpf[<<n, name>>])]
               /\ tmpf' = MapDel(tmpf, <<n, name>>)
               /\ dnthr' = [v \in Writers |->
                              IF v = w THEN [dnthr[w] EXCEPT !.pc = "ack"]
                              ELSE IF v \in SameFile(w, "tmp")
                                THEN [dnthr[v] EXCEPT !.fd = "block"]
                              ELSE IF v \in SameFile(w, "block")
                                THEN [dnthr[v] EXCEPT !.fd = "gone"]
                              ELSE dnthr[v]]
          ELSE /\ dnthr' = [dnthr EXCEPT ![w].pc = "done", ![w].reply = "error"]
               /\ UNCHANGED <<disk, tmpf>>
  /\ last' = NoEvent
  /\ UNCHANGED <<directories, files, metadata_cache, objs, datanodes,
                 datanode_load, dir_lock, now, thr, mon, budget, scope, recency>>
  /\ UNCHANGED <<up, repl, cl, acked, written, probe, lk, beat>>

\* self.send_message(client_socket, "success")
DnAck(w) ==
  /\ dnthr[w].pc = "ack"
  /\ dnthr[w].node \in up
  /\ dnthr' = [dnthr EXCEPT ![w].reply = "success",
                            ![w].pc = IF starts_replication(dnthr[w].kind)
                                        THEN "spawn" ELSE "done"]
  /\ last' = NoEvent
  /\ UNCHANGED <<directories, files, metadata_cache, objs, datanodes,
                 datanode_load, dir_lock, now, thr, mon, budget, scope, recency>>
  /\ UNCHANGED <<up, disk, repl, cl, acked, written, probe, tmpf, lk, beat>>

\* handle_write_block: replication_thread.start(), then the handler returns.
DnSpawn(w) ==
  /\ dnthr[w].pc = "spawn"
  /\ dnthr[w].node \in up
  /\ repl' = repl \cup {NewReplication(dnthr[w].node, dnthr[w].name, dnthr[w].data)}
  /\ dnthr' = [dnthr EXCEPT ![w].pc = "done"]
  /\ last' = NoEvent
  /\ UNCHANGED <<directories, files, metadata_cache, objs, datanodes,
                 datanode_load, dir_lock, now, thr, mon, budget, scope, recency>>
  /\ UNCHANGED <<up, disk, cl, acked, written, probe, tmpf, lk, beat>>

\* handle_read_block: no answer when the block file is not there, else the
\* bytes the file holds at this moment.
DnRead(n) ==
  /\ n \in up
  /\ \E b \in scope.blocks :
       last' = [NoEvent EXCEPT !.ev = "read_block", !.nodes = <<n>>,
                               !.ok = b.name \in DOMAIN disk[n],
                               !.data = IF b.name \in DOMAIN disk[n]
                                          THEN disk[n][b.name] ELSE <<>>]
  /\ UNCHANGED <<directories, files, metadata_cache, objs, datanodes,
                 datanode_load, dir_lock, now, thr, mon, budget, scope, recency>>
  /\ UNCHANGED evars

\* ------------------------------------------------------------ client upload
\* One block task of an upload or a download.
\* (tried: the block servers a download task has contacted, in order; seq: its
\* position in the order in which the download tasks completed; sent: the
\* block servers an upload task has sent write_block to, in order.)
NewTask == [pc |-> "run", attempt |-> 0, exclude |-> {}, k |-> 1, data |-> <<>>,
            tried |-> <<>>, seq |-> 0, sent |-> <<>>]

ClIdle == [pc |-> "idle", op |-> "none", name |-> RawName(FALSE, <<>>), cwd |-> Root,
           content |-> <<>>, num_blocks |-> 0, storage_name |-> <<>>,
           tasks |-> <<>>, sent_store |-> FALSE, result |-> FALSE, t |-> "none",
           attempts |-> 0, md |-> NoMd, out |-> <<>>,
           files0 |-> EmptyMap, dirs0 |-> EmptyMap, todo |-> {}]

\* math.ceil(file_size / self.block_size)
ceil_blocks(file_size) == (file_size + block_size - 1) \div block_size

\* Client.write_file: full_path, then path_to_key of it.
client_storage_name(name, cwd) ==
  path_to_key(IF HasSlash(name) THEN normalize_path(name.comps)
              ELSE normalize_path(path_join(cwd, name)))

\* Client.read_block_from_file: seek(block_id * block_size), read(block_size).
read_block_from_file(content, block_id) ==
  LET block_offset == block_id * block_size
      end == IF block_offset + block_size < Len(content)
               THEN block_offset + block_size ELSE Len(content)
  IN SubSeq(content, block_offset + 1, end)

\* A get_active_datanode that does not look at the exclusion list.
get_active_datanode_any(exclude_nodes) ==
  LiveSet \cup (IF LiveSet = {} THEN {"none"} ELSE {})

\* Client.get_active_datanode behind retry_with_backoff: every query draws a
\* random registered node; the answers it can end with are a registered node
\* outside the exclusion list, or none when every draw may be excluded.
get_active_datanode(exclude_nodes) ==
  (LiveSet \ exclude_nodes)
    \cup (IF LiveSet = {} \/ LiveSet \cap exclude_nodes # {} THEN {"none"} ELSE {})

\* A retry loop that reports success when its attempts are used up; the
\* ordering of acknowledgments and store_metadata must tell it from the code's.
NextAttempt_gives_ok(task) ==
  IF task.attempt + 1 >= max_retries THEN [task EXCEPT !.attempt = @ + 1, !.pc = "ok"]
  ELSE [task EXCEPT !.attempt = @ + 1]

\* The end of one turn of "for attempt in range(max_retries)" without success.
NextAttempt(task) ==
  IF task.attempt + 1 >= max_retries THEN [task EXCEPT !.attempt = @ + 1, !.pc = "fail"]
  ELSE [task EXCEPT !.attempt = @ + 1]

\* An upload that forgets its failed blocks; the failure property must tell
\* it from the code's.
failed_blocks_forgotten(tasks) == {}

\* failed_blocks of write_file (block ids from 0).
failed_blocks(tasks) == {i - 1 : i \in {j \in DOMAIN tasks : tasks[j].pc = "fail"}}

\* Client.write_file up to the submission of the block tasks.
ClBeginWrite ==
  /\ cl.pc = "idle"
  /\ budget["write"] > 0
  /\ \E in \in scope.files, content \in scope.contents :
       LET n == ceil_blocks(Len(content))
           key == client_storage_name(in.name, in.cwd)
       IN /\ cl' = [ClIdle EXCEPT !.pc = "blocks", !.op = "write", !.name = in.name,
                            !.cwd = in.cwd, !.content = content, !.num_blocks = n,
                            !.storage_name = key,
                            !.tasks = [i \in 1..n |-> NewTask],
                            !.files0 = files, !.dirs0 = directories]
          /\ written' = MapDel(written, key)
  /\ acked' = {}
  /\ budget' = Spend("write")
  /\ last' = NoEvent
  /\ UNCHANGED <<directories, files, metadata_cache, objs, datanodes,
                 datanode_load, dir_lock, now, thr, mon, scope, recency>>
  /\ UNCHANGED <<up, disk, repl, probe, dnthr, tmpf, lk, beat>>

\* One attempt of Client.process_single_block_streaming for block i - 1: get a
\* block server, send the block (send_block_to_datanode_with_timeout), and on
\* the server handle_write_block: write the file, answer 'success', start the
\* replication thread.
ClBlockAttempt(i) ==
  /\ cl.pc = "blocks"
  /\ i \in DOMAIN cl.tasks
  /\ cl.tasks[i].pc = "run"
  /\ LET task == cl.tasks[i]
         block_data == read_block_from_file(cl.content, i - 1)
         name == BlockName(cl.storage_name, i - 1)
     IN IF block_data = <<>>
          THEN /\ cl' = [cl EXCEPT !.tasks[i].pc = "fail"]
               /\ UNCHANGED <<disk, repl, acked>>
          ELSE \E datanode_addr \in get_active_datanode(task.exclude) :
                 IF datanode_addr = "none"
                   THEN /\ cl' = [cl EXCEPT !.tasks[i] = NextAttempt(task)]
                        /\ UNCHANGED <<disk, repl, acked>>
                 ELSE IF datanode_addr \in up
                   THEN /\ disk' = [disk EXCEPT ![datanode_addr] = MapPut(@, name, block_data)]
                        /\ repl' = repl \cup {NewReplication(datanode_addr, name, block_data)}
                        /\ acked' = acked \cup {i - 1}
                        /\ cl' = [cl EXCEPT !.tasks[i].pc = "ok",
                                              !.tasks[i].sent = Append(@, datanode_addr)]
                 ELSE /\ cl' = [cl EXCEPT !.tasks[i] =
                                  NextAttempt([task EXCEPT
                                                 !.exclude = @ \cup {datanode_addr},
                                                 !.sent = Append(@, datanode_addr)])]
                      /\ UNCHANGED <<disk, repl, acked>>
  /\ last' = NoEvent
  /\ UNCHANGED <<directories, files, metadata_cache, objs, datanodes,
                 datanode_load, dir_lock, now, thr, mon, budget, scope, recency>>
  /\ UNCHANGED <<up, written, probe, dnthr, tmpf, lk, beat>>

\* write_file once every block task has ended: "if failed_blocks: return
\* False", else go on to store_metadata.
ClSummary ==
  /\ cl.pc = "blocks"
  /\ \A i \in DOMAIN cl.tasks : cl.tasks[i].pc # "run"
  /\ cl' = IF failed_blocks(cl.tasks) # {}
             THEN [cl EXCEPT !.pc = "write_done", !.result = FALSE]
             ELSE [cl EXCEPT !.pc = "store"]
  /\ last' = NoEvent
  /\ UNCHANGED <<directories, files, metadata_cache, objs, datanodes,
                 datanode_load, dir_lock, now, thr, mon, budget, scope, recency>>
  /\ UNCHANGED <<up, disk, repl, acked, written, probe, dnthr, tmpf, lk, beat>>

\* Client.store_metadata: the request reaches a handler thread of the
\* coordinator.
ClSendStore(t) ==
  /\ cl.pc = "store"
  /\ thr[t].pc = "idle"
  /\ StoreStart(t, "client", cl.name, cl.cwd, cl.num_blocks, block_size)
  /\ cl' = [cl EXCEPT !.pc = "store_wait", !.t = t, !.sent_store = TRUE]
  /\ UNCHANGED <<directories, files, metadata_cache, objs, datanodes,
                 datanode_load, dir_lock, now, mon, budget, scope, recency>>
  /\ UNCHANGED <<up, disk, repl, acked, written, probe, dnthr, tmpf, lk, beat>>

\* response == "success" decides what write_file returns.
ClStoreReply ==
  /\ cl.pc = "store_wait"
  /\ thr[cl.t].pc = "done"
  /\ cl' = [cl EXCEPT !.pc = "write_done", !.result = thr[cl.t].ok]
  /\ written' = IF thr[cl.t].ok THEN MapPut(written, cl.storage_name, cl.content)
                ELSE written
  /\ thr' = [thr EXCEPT ![cl.t] = Idle]
  /\ last' = NoEvent
  /\ UNCHANGED <<directories, files, metadata_cache, objs, datanodes,
                 datanode_load, dir_lock, now, mon, budget, scope, recency>>
  /\ UNCHANGED <<up, disk, repl, acked, probe, dnthr, tmpf, lk, beat>>

\* write_file, read_file or delete_file has returned; the client is ready for
\* the next call.
ClReturn ==
  /\ cl.pc \in {"write_done", "read_done", "delete_done"}
  /\ cl' = ClIdle
  /\ last' = NoEvent
  /\ UNCHANGED <<directories, files, metadata_cache, objs, datanodes,
                 datanode_load, dir_lock, now, thr, mon, budget, scope, recency>>
  /\ UNCHANGED <<up, disk, repl, acked, written, probe, dnthr, tmpf, lk, beat>>

\* ---------------------------------------------------------- client download
\* Client.read_file: the first get_metadata attempt is due.
ClBeginRead ==
  /\ cl.pc = "idle"
  /\ budget["read"] > 0
  /\ \E in \in scope.files :
       cl' = [ClIdle EXCEPT !.pc = "meta", !.op = "read", !.name = in.name,
                            !.cwd = in.cwd,
                            !.storage_name = client_storage_name(in.name, in.cwd)]
  /\ budget' = Spend("read")
  /\ last' = NoEvent
  /\ UNCHANGED <<directories, files, metadata_cache, objs, datanodes,
                 datanode_load, dir_lock, now, thr, mon, scope, recency>>
  /\ UNCHANGED <<up, disk, repl, acked, written, probe, dnthr, tmpf, lk, beat>>

\* attempt_get_metadata: the request reaches a handler thread.
ClSendGet(t) ==
  /\ cl.pc = "meta"
  /\ thr[t].pc = "idle"
  /\ GetStart(t, "client", cl.name, cl.cwd)
  /\ cl' = [cl EXCEPT !.pc = "meta_wait", !.t = t]
  /\ UNCHANGED <<directories, files, metadata_cache, objs, datanodes,
                 datanode_load, dir_lock, now, mon, budget, scope, recency>>
  /\ UNCHANGED <<up, disk, repl, acked, written, probe, dnthr, tmpf, lk, beat>>

\* Client.get_file_metadata under retry_with_backoff: the metadata, or another
\* attempt, or None after the last one ("Could not find file").
ClGetReply ==
  /\ cl.pc = "meta_wait"
  /\ thr[cl.t].pc = "done"
  /\ cl' = IF thr[cl.t].ok
             THEN [cl EXCEPT !.pc = "reading", !.md = thr[cl.t].resp,
                             !.tasks = [i \in 1..Len(thr[cl.t].resp.blocks) |-> NewTask]]
           ELSE IF cl.attempts + 1 >= metadata_retries
             THEN [cl EXCEPT !.pc = "read_done", !.result = FALSE, !.attempts = @ + 1]
           ELSE [cl EXCEPT !.pc = "meta", !.attempts = @ + 1]
  /\ thr' = [thr EXCEPT ![cl.t] = Idle]
  /\ last' = NoEvent
  /\ UNCHANGED <<directories, files, metadata_cache, objs, datanodes,
                 datanode_load, dir_lock, now, mon, budget, scope, recency>>
  /\ UNCHANGED <<up, disk, repl, acked, written, probe, dnthr, tmpf, lk, beat>>

\* read_single_block_streaming: locations[primary_idx:] + locations[:primary_idx]
\* The locations in the order of the metadata, whatever the block.
reordered_locations_unrotated(locations, block_idx) == locations

\* primary_idx = block_idx % len(locations);
\* reordered_locations = locations[primary_idx:] + locations[:primary_idx]
reordered_locations(locations, block_idx) ==
  LET primary_idx == block_idx % Len(locations)
  IN SubSeq(locations, primary_idx + 1, Len(locations)) \o SubSeq(locations, 1, primary_idx)

\* The number of download tasks that have returned data.
Completed(tasks) == Cardinality({j \in DOMAIN tasks : tasks[j].pc = "ok"})

\* One turn of "for datanode_addr in reordered_locations": Client.read_block and
\* the server's handle_read_block, which answers only when it has the file.
ClReadTry(i) ==
  /\ cl.pc = "reading"
  /\ i \in DOMAIN cl.tasks
  /\ cl.tasks[i].pc = "run"
  /\ LET locations == cl.md.blocks[i].locations
         task == cl.tasks[i]
         name == BlockName(cl.md.storage_name, cl.md.blocks[i].block_id)
     IN IF locations = <<>>
          THEN cl' = [cl EXCEPT !.tasks[i].pc = "fail"]
          ELSE LET datanode_addr == reordered_locations(locations, i - 1)[task.k]
                   tried == Append(task.tried, datanode_addr)
               IN IF datanode_addr \in up /\ name \in DOMAIN disk[datanode_addr]
                       /\ disk[datanode_addr][name] # <<>>
                    THEN cl' = [cl EXCEPT !.tasks[i].pc = "ok",
                                          !.tasks[i].data = disk[datanode_addr][name],
                                          !.tasks[i].tried = tried,
                                          !.tasks[i].seq = Completed(cl.tasks) + 1]
                  ELSE IF task.k >= Len(locations)
                    THEN cl' = [cl EXCEPT !.tasks[i].pc = "fail",
                                          !.tasks[i].tried = tried]
                  ELSE cl' = [cl EXCEPT !.tasks[i].k = @ + 1,
                                        !.tasks[i].tried = tried]
  /\ last' = NoEvent
  /\ UNCHANGED <<directories, files, metadata_cache, objs, datanodes,
                 datanode_load, dir_lock, now, thr, mon, budget, scope, recency>>
  /\ UNCHANGED <<up, disk, repl, acked, written, probe, dnthr, tmpf, lk, beat>>

\* An output written in the order in which the block tasks completed.
RECURSIVE block_results_as_completed(_, _)
block_results_as_completed(tasks, block_idx) ==
  IF block_idx > Len(tasks) THEN <<>>
  ELSE LET j == CHOOSE i \in DOMAIN tasks : tasks[i].seq = block_idx
       IN tasks[j].data \o block_results_as_completed(tasks, block_idx + 1)

\* "for block_idx in range(total_blocks): outfile.write(block_results[block_idx])"
RECURSIVE block_results(_, _)
block_results(tasks, block_idx) ==
  IF block_idx > Len(tasks) THEN <<>>
  ELSE tasks[block_idx].data \o block_results(tasks, block_idx + 1)

\* read_file once every block task has ended: False when one gave no data,
\* else the blocks are written to the output in index order.
ClReadFinish ==
  /\ cl.pc = "reading"
  /\ \A i \in DOMAIN cl.tasks : cl.tasks[i].pc # "run"
  /\ cl' = IF \E i \in DOMAIN cl.tasks : cl.tasks[i].pc = "fail"
             THEN [cl EXCEPT !.pc = "read_done", !.result = FALSE]
             ELSE [cl EXCEPT !.pc = "read_done", !.result = TRUE,
                             !.out = block_results(cl.tasks, 1)]
  /\ last' = NoEvent
  /\ UNCHANGED <<directories, files, metadata_cache, objs, datanodes,
                 datanode_load, dir_lock, now, thr, mon, budget, scope, recency>>
  /\ UNCHANGED <<up, disk, repl, acked, written, probe, dnthr, tmpf, lk, beat>>

\* ----------------------------------------------------------- initial state
nnvars == <<directories, files, metadata_cache, objs, datanodes, datanode_load,
            dir_lock, now, thr, mon, budget, scope, last, recency>>
vars == <<nnvars, evars>>

Budget(mk, st, ge, df, dd) ==
  [k \in {"mkdir", "store", "get", "delete_file", "delete_directory"} |->
     CASE k = "mkdir" -> mk [] k = "store" -> st [] k = "get" -> ge
       [] k = "delete_file" -> df [] OTHER -> dd]

\* NameNode.__init__ and init_directory_structure: only the root exists.
InitCoordinator(registered) ==
  /\ directories = [p \in {Root} |-> NewDir(0)]
  /\ files = EmptyMap
  /\ metadata_cache = <<>>
  /\ objs = EmptyMap
  /\ datanodes = registered
  /\ datanode_load = [n \in Nodes |-> 0]
  /\ dir_lock = "free"
  /\ now = 0
  /\ thr = [t \in Threads |-> Idle]
  /\ mon = [pc |-> "sleep", dead |-> {}]
  /\ last = NoEvent
  /\ recency = <<>>

InitNameNode == InitCoordinator(<<>>)

\* The exists and ls requests the environment may still send.
QueryBudget(ex, ls) == [k \in {"exists", "ls"} |-> IF k = "exists" THEN ex ELSE ls]

\* No block is stored, no client call is under way.
InitStores ==
  /\ disk = [n \in Nodes |-> EmptyMap]
  /\ repl = {}
  /\ cl = ClIdle
  /\ acked = {}
  /\ written = EmptyMap

\* No function is under examination.
NoProbe == [pc |-> "none", paths |-> <<>>, keys |-> <<>>, back |-> <<>>]

\* ------------------------------------------------- the coordinator's locks
\* self.cache_lock, self.load_lock, self.dir_lock, self.datanodes_lock:
\* threading.Lock(), not reentrant.
Locks == {"dir_lock", "cache_lock", "load_lock", "datanodes_lock"}

\* The two handler threads and the thread of monitor_heartbeats.
LockThreads == Threads \cup {"monitor"}

Acq(l) == <<"acquire", l>>
Rel(l) == <<"release", l>>

\* "with self.l:" around a body that takes no lock.
Critical(l) == <<Acq(l), Rel(l)>>

\* A delete_file that takes cache_lock first and dir_lock inside it.
delete_file_locks_cache_first ==
  <<Acq("cache_lock"), Acq("dir_lock"), Rel("dir_lock"), Rel("cache_lock")>>

\* delete_file: "with self.dir_lock:" around the whole body, and inside it
\* "with self.cache_lock: self.metadata_cache.pop(file_key, None)".
delete_file_locks ==
  <<Acq("dir_lock"), Acq("cache_lock"), Rel("cache_lock"), Rel("dir_lock")>>

\* The acquisitions and releases of one request or one monitor round, in the
\* order the code makes them. store_metadata has one block; get_metadata is a
\* cache hit or a miss that caches the record; delete_directory meets one file
\* or none; update_heartbeat of an unknown block server goes on to
\* register_datanode, which ends with print_datanode_status; a monitor round
\* that finds dead nodes takes datanodes_lock again to delete them and once
\* more in print_datanode_status.
LockScript(op) ==
  CASE op = "mkdir" -> Critical("dir_lock")
    [] op = "ls" -> Critical("dir_lock")
    [] op = "store_metadata" ->
         <<Acq("load_lock"), Acq("datanodes_lock"), Rel("datanodes_lock"),
           Rel("load_lock")>> \o Critical("cache_lock") \o Critical("dir_lock")
    [] op = "get_metadata_hit" -> Critical("cache_lock") \o Critical("datanodes_lock")
    [] op = "get_metadata_miss" ->
         Critical("cache_lock") \o Critical("datanodes_lock") \o Critical("cache_lock")
    [] op = "delete_file" -> delete_file_locks
    [] op = "delete_directory" ->
         <<Acq("dir_lock"), Acq("cache_lock"), Rel("cache_lock"), Rel("dir_lock")>>
    [] op = "delete_directory_empty" -> Critical("dir_lock")
    [] op = "register" -> Critical("datanodes_lock") \o Critical("datanodes_lock")
    [] op = "heartbeat" -> Critical("datanodes_lock")
    [] op = "heartbeat_unknown" ->
         Critical("datanodes_lock") \o Critical("datanodes_lock")
           \o Critical("datanodes_lock")
    [] op = "get_datanodes" -> Critical("datanodes_lock")
    [] op = "monitor_round" -> Critical("datanodes_lock")
    [] OTHER ->
         Critical("datanodes_lock") \o Critical("datanodes_lock")
           \o Critical("datanodes_lock")

HandlerOps ==
  {"mkdir", "ls", "store_metadata", "get_metadata_hit", "get_metadata_miss",
   "delete_file", "delete_directory", "delete_directory_empty", "register",
   "heartbeat", "heartbeat_unknown", "get_datanodes"}

MonitorOps == {"monitor_round", "monitor_round_dead"}

LocksFree == [owner |-> [l \in Locks |-> "free"], run |-> [t \in LockThreads |-> <<>>]]

\* A handler thread takes a request, or the monitor wakes up.
LockBegin(t) ==
  /\ lk.run[t] = <<>>
  /\ budget["lockop"] > 0
  /\ \E op \in (IF t = "monitor" THEN MonitorOps ELSE HandlerOps) :
       lk' = [lk EXCEPT !.run[t] = LockScript(op)]
  /\ budget' = Spend("lockop")
  /\ last' = NoEvent
  /\ UNCHANGED <<directories, files, metadata_cache, objs, datanodes,
                 datanode_load, dir_lock, now, thr, mon, scope, recency>>
  /\ UNCHANGED <<up, disk, repl, cl, acked, written, probe, dnthr, tmpf, beat>>

\* lock.acquire(): the thread goes on when the lock is free, and waits as long
\* as it has an owner, the thread itself included.
LockAcquire(t) ==
  /\ lk.run[t] # <<>>
  /\ Head(lk.run[t])[1] = "acquire"
  /\ lk.owner[Head(lk.run[t])[2]] = "free"
  /\ lk' = [lk EXCEPT !.owner[Head(lk.run[t])[2]] = t, !.run[t] = Tail(@)]
  /\ last' = NoEvent
  /\ UNCHANGED <<directories, files, metadata_cache, objs, datanodes,
                 datanode_load, dir_lock, now, thr, mon, budget, scope, recency>>
  /\ UNCHANGED <<up, disk, repl, cl, acked, written, probe, dnthr, tmpf, beat>>

\* The end of the with block.
LockRelease(t) ==
  /\ lk.run[t] # <<>>
  /\ Head(lk.run[t])[1] = "release"
  /\ lk' = [lk EXCEPT !.owner[Head(lk.run[t])[2]] = "free", !.run[t] = Tail(@)]
  /\ last' = NoEvent
  /\ UNCHANGED <<directories, files, metadata_cache, objs, datanodes,
                 datanode_load, dir_lock, now, thr, mon, budget, scope, recency>>
  /\ UNCHANGED <<up, disk, repl, cl, acked, written, probe, dnthr, tmpf, beat>>

\* DataNode.send_heartbeat starts with consecutive_failures = 0; the
\* coordinator can be reached.
NoBeat == [reach |-> TRUE, fails |-> [n \in Nodes |-> 0],
           pc |-> [n \in Nodes |-> "heartbeat"]]

\* No block server connection is being served, no temp file exists, no
\* coordinator lock is held, and no heartbeat has failed.
InitHandlers ==
  /\ dnthr = [w \in Writers |-> DnIdle]
  /\ tmpf = EmptyMap
  /\ lk = LocksFree
  /\ beat = NoBeat

InitOutside == InitStores /\ probe = NoProbe /\ InitHandlers

\* ------------------------------------------- the namespace under concurrency
\* Two handler threads serve mkdir, store_metadata, delete_file and
\* delete_directory requests; one block server is registered.
NsMkdirs == 1
NsStores == 2
NsDeleteFiles == 1
NsDeleteDirs == 1

InitNs ==
  /\ InitNameNode
  /\ InitOutside
  /\ up = {"n1"}
  /\ budget = Budget(NsMkdirs, NsStores, 0, NsDeleteFiles, NsDeleteDirs)
  /\ scope = [files |-> {File_a_f, File_a_b_f}, mkdirs |-> {<<Ca>>},
              rmdirs |-> {<<Ca>>}, counts |-> {MaxBlocks}]

NextNs ==
  \/ \E n \in Nodes : Register(n)
  \/ \E t \in Threads :
       \/ BeginMkdir(t) \/ MkdirCreate(t)
       \/ BeginStore(t) \/ StorePlace(t) \/ StoreHset(t) \/ StoreCache(t)
       \/ StoreRegister(t)
       \/ BeginDeleteFile(t) \/ DelHget(t) \/ DelUnlink(t) \/ DelHdel(t)
       \/ DelCachePop(t) \/ DelReturn(t)
       \/ BeginDeleteDir(t) \/ DdCollect(t) \/ DdHget(t) \/ DdHdel(t)
       \/ DdCachePop(t) \/ DdDirs(t)

SpecNs == InitNs /\ [][NextNs]_vars

\* ------------------------------------------------------------------ claims
\* C4 (as claimed): in every reachable state, every file F of the files
\* registry is listed in directories[parent(F.full_path)].files under
\* basename(F.full_path), with size = F.total_size and created = F.creation_time.
C4_EveryFileListedInParent ==
  \A k \in DOMAIN files :
    LET parent == get_parent_path(files[k].full_path)
        name == basename(files[k].full_path)
    IN /\ parent \in DOMAIN directories
       /\ name \in DOMAIN directories[parent].files
       /\ directories[parent].files[name].size = files[k].total_size
       /\ directories[parent].files[name].created = files[k].creation_time

\* C5 (as claimed): when delete_file(P) has just returned success, P's storage
\* key is in neither the files registry nor the cache, and basename(P) is not in
\* the files map of P's parent directory.
C5_DeletedFileIsGone ==
  (last.ev = "delete_file" /\ last.ok) =>
    /\ last.key \notin DOMAIN files
    /\ last.key \notin CacheKeys(metadata_cache)
    /\ get_parent_path(last.path) \in DOMAIN directories =>
         basename(last.path) \notin DOMAIN directories[get_parent_path(last.path)].files

\* C6 (as claimed): when delete_directory(D) has just returned success, no key
\* of directories is D or lies under D, and no key of the files registry is the
\* storage key of a path under D.
C6_DeletedTreeIsGone ==
  (last.ev = "delete_directory" /\ last.ok) =>
    /\ \A p \in DOMAIN directories : ~IsPrefix(last.path, p)
    /\ \A k \in DOMAIN files : ~IsPrefix(path_to_key(last.path) \o <<"_", "_">>, k)

\* --------------------------------------------- metadata reads and liveness
\* One block server comes and goes while two handler threads serve one
\* store_metadata and a few get_metadata requests for the same file.
MetaStores == 1
MetaGets == 2

InitMeta ==
  /\ InitNameNode
  /\ InitOutside
  /\ up = {"n1"}
  /\ budget = Budget(0, MetaStores, MetaGets, 0, 0)
  /\ scope = [files |-> {File_f}, mkdirs |-> {}, rmdirs |-> {}, counts |-> {MaxBlocks}]

NextMeta ==
  \/ \E n \in Nodes : Register(n) \/ Heartbeat(n)
  \/ Tick \/ MonitorScan \/ MonitorRemove
  \/ \E t \in Threads :
       \/ BeginStore(t) \/ StorePlace(t) \/ StoreHset(t) \/ StoreCache(t)
       \/ StoreRegister(t)
       \/ BeginGet(t) \/ GetCache(t) \/ GetLiveHit(t) \/ GetFilter(t)
       \/ GetAssign(t) \/ GetCheckLoc(t) \/ GetHget(t) \/ GetLiveMiss(t)
       \/ GetCachePut(t) \/ GetDumps(t)

SpecMeta == InitMeta /\ [][NextMeta]_vars

\* Requests for three files served one after the other by a single handler
\* thread, so that the cache (of capacity max_cache_size) evicts.
SeqStores == 3
SeqGets == 2

InitSeq ==
  /\ InitNameNode
  /\ InitOutside
  /\ up = {"n1"}
  /\ budget = Budget(0, SeqStores, SeqGets, 0, 0)
  /\ scope = [files |-> {File_f, File_g, File_h}, mkdirs |-> {}, rmdirs |-> {},
              counts |-> {MaxBlocks}]

NextSeq ==
  \/ \E n \in Nodes : Register(n) \/ Heartbeat(n)
  \/ Tick \/ MonitorScan \/ MonitorRemove
  \/ \E t \in {"t1"} :
       \/ BeginStore(t) \/ StorePlace(t) \/ StoreHset(t) \/ StoreCache(t)
       \/ StoreRegister(t)
       \/ BeginGet(t) \/ GetCache(t) \/ GetLiveHit(t) \/ GetFilter(t)
       \/ GetAssign(t) \/ GetCheckLoc(t) \/ GetHget(t) \/ GetLiveMiss(t)
       \/ GetCachePut(t) \/ GetDumps(t)

SpecSeq == InitSeq /\ [][NextSeq]_vars

\* C7 (as claimed): a successful get_metadata response lists for every block
\* only nodes of the live set the request saw, and at least one; and when some
\* block has no stored location in that live set the response is file_not_found.
C7_ResponseListsLiveNodes ==
  (last.ev = "get_metadata" /\ last.path # NoPath) =>
    /\ last.ok =>
         \A i \in 1..Len(last.resp.blocks) :
           /\ last.resp.blocks[i].locations # <<>>
           /\ Range(last.resp.blocks[i].locations) \subseteq last.active
    /\ (/\ last.key \in DOMAIN files
        /\ \E i \in 1..Len(files[last.key].blocks) :
             Range(files[last.key].blocks[i].locations) \cap last.active = {})
         => ~last.ok

\* C8 (as claimed): the locations a get_metadata returns for each block are the
\* stored locations of the block intersected with the live set of the request,
\* whatever requests came before; the file is found iff every block keeps one.
C8_ResponseIsStoredMeetLive ==
  (last.ev = "get_metadata" /\ last.path # NoPath /\ last.key \in DOMAIN files) =>
    LET stored == files[last.key].blocks
        expected == FilterBlocks(stored, last.active)
    IN IF \A i \in 1..Len(expected) : expected[i].locations # <<>>
         THEN last.ok /\ last.resp.blocks = expected
         ELSE ~last.ok

\* -------------------------------------------------------- the metadata cache
\* Three files are stored, read and deleted by two handler threads with one
\* block server registered, so that the cache fills, is hit, evicts and is
\* invalidated.
CacheStores == 3
CacheGets == 1
CacheDeletes == 1

InitCache ==
  /\ InitNameNode
  /\ InitOutside
  /\ up = {"n1"}
  /\ budget = Budget(0, CacheStores, CacheGets, CacheDeletes, 0)
  /\ scope = [files |-> {File_f, File_g, File_h}, mkdirs |-> {}, rmdirs |-> {},
              counts |-> {MaxBlocks}]

NextCache ==
  \/ \E n \in Nodes : Register(n)
  \/ \E t \in Threads :
       \/ BeginStore(t) \/ StorePlace(t) \/ StoreHset(t) \/ StoreCache(t)
       \/ StoreRegister(t)
       \/ BeginGet(t) \/ GetCache(t) \/ GetLiveHit(t) \/ GetFilter(t)
       \/ GetAssign(t) \/ GetCheckLoc(t) \/ GetHget(t) \/ GetLiveMiss(t)
       \/ GetCachePut(t) \/ GetDumps(t)
       \/ BeginDeleteFile(t) \/ DelHget(t) \/ DelUnlink(t) \/ DelHdel(t)
       \/ DelCachePop(t) \/ DelReturn(t)

SpecCache == InitCache /\ [][NextCache]_vars

\* The keys of the cache from least to most recently used.
KeyOrder(cache) == [i \in 1..Len(cache) |-> cache[i].key]

\* C10: the cache never holds more than max_cache_size entries; its keys are
\* ordered by when each was last inserted or hit, so the key touched last is at
\* the most-recently-used end; inserting a new key into a full cache drops
\* exactly the least recently touched key, and any other insertion drops none.
C10_CacheIsLRU ==
  /\ Len(metadata_cache) <= max_cache_size
  /\ Cardinality(CacheKeys(metadata_cache)) = Len(metadata_cache)
  /\ KeyOrder(metadata_cache)
       = SelectSeq(recency, LAMBDA k : k \in CacheKeys(metadata_cache))
  /\ last.ev = "cache_insert" =>
       /\ Last(KeyOrder(metadata_cache)) = last.key
       /\ last.evicted = IF last.full /\ last.fresh THEN {last.lru} ELSE {}

\* A new key was inserted into a full cache and the entry inserted first of all
\* is still cached: a hit had moved it away from the least-recently-used end.
C10_Witness ==
  /\ last.ev = "cache_insert"
  /\ last.full
  /\ last.fresh
  /\ metadata_cache[1].obj = 1
  /\ Len(metadata_cache) = max_cache_size

\* ------------------------------------------------------------ block placement
\* Four block servers register in any order while two handler threads place
\* the blocks of a few store_metadata requests.
PlaceStores == 3

InitPlace ==
  /\ InitNameNode
  /\ InitOutside
  /\ up = Nodes
  /\ budget = Budget(0, PlaceStores, 0, 0, 0)
  /\ scope = [files |-> {File_f}, mkdirs |-> {}, rmdirs |-> {}, counts |-> {MaxBlocks}]

NextPlace ==
  \/ \E n \in Nodes : Register(n)
  \/ \E t \in Threads :
       \/ BeginStore(t) \/ StorePlace(t) \/ StoreHset(t) \/ StoreCache(t)
       \/ StoreRegister(t)

SpecPlace == InitPlace /\ [][NextPlace]_vars

\* C9: a placement returns distinct nodes, min(R, |live|) of them, all of the
\* live set read at selection, none with a larger load counter than a live node
\* left out; and in the state the selection step leaves, the counter of each
\* chosen node is one more than before and every other counter is as before.
C9_PlacementIsLeastLoaded ==
  last.ev = "place" =>
    LET chosen == Range(last.sel)
        live == Range(last.live)
    IN /\ Cardinality(chosen) = Len(last.sel)
       /\ Len(last.sel) = IF Len(last.live) < num_replicas THEN Len(last.live)
                          ELSE num_replicas
       /\ chosen \subseteq live
       /\ \A a \in chosen : \A b \in live \ chosen : last.load[a] <= last.load[b]
       /\ \A n \in Nodes :
            datanode_load[n] = last.load[n] + (IF n \in chosen THEN 1 ELSE 0)

\* A placement among four live nodes with unequal counters that passed over
\* the node registered first.
C9_Witness ==
  /\ last.ev = "place"
  /\ Len(last.live) = 4
  /\ Len(last.sel) = num_replicas
  /\ last.live[1] \notin Range(last.sel)
  /\ \E a \in Range(last.live) : \E b \in Range(last.live) : last.load[a] < last.load[b]

\* ------------------------------------------------------- upload then download
\* The calls the client may still make and the crashes that may still happen.
ClientBudget(wr, rd, cr) ==
  [k \in {"write", "read", "crash"} |->
     CASE k = "write" -> wr [] k = "read" -> rd [] OTHER -> cr]

\* A local file of n bytes, each byte different.
MaxLen == 3
Bytes(n) == [i \in 1..n |-> i]

\* start_dfs.py has started the coordinator and three block servers, which have
\* registered in the order they were started.
StartedCluster ==
  <<[addr |-> "n1", hb |-> 0], [addr |-> "n2", hb |-> 0], [addr |-> "n3", hb |-> 0]>>

\* A fourth block server is started by hand and registers at any moment; no
\* block server stops; the client uploads one file and downloads it. The one
\* handler thread serves the client's requests one after the other, and the
\* upload leaves the key in the cache, so get_metadata takes the hit branch.
ReadWrites == 1
ReadReads == 1

InitRead ==
  /\ InitCoordinator(StartedCluster)
  /\ InitOutside
  /\ up = Nodes
  /\ budget = Budget(0, 0, 0, 0, 0) @@ ClientBudget(ReadWrites, ReadReads, 0)
  /\ scope = [files |-> {File_f}, mkdirs |-> {}, rmdirs |-> {}, counts |-> {},
              contents |-> {Bytes(MaxLen)}]

NextRead ==
  \/ \E n \in Nodes : Register(n)
  \/ \E r \in repl : ReplPick(r) \/ ReplSend(r)
  \/ ClBeginWrite \/ ClSummary \/ ClStoreReply \/ ClReturn
  \/ ClBeginRead \/ ClGetReply \/ ClReadFinish
  \/ \E i \in 1..ceil_blocks(MaxLen) : ClBlockAttempt(i) \/ ClReadTry(i)
  \/ \E t \in {"t1"} :
       \/ ClSendStore(t) \/ StorePlace(t) \/ StoreHset(t) \/ StoreCache(t)
       \/ StoreRegister(t)
       \/ ClSendGet(t) \/ GetCache(t) \/ GetLiveHit(t) \/ GetFilter(t)
       \/ GetAssign(t) \/ GetCheckLoc(t) \/ GetDumps(t)

SpecRead == InitRead /\ [][NextRead]_vars

\* C1 (as claimed): when read_file returns for a path whose last upload
\* returned success, with no block server stopped in between, it returns
\* success and the bytes written to the output are the bytes uploaded.
C1_DownloadYieldsUpload ==
  (cl.pc = "read_done" /\ cl.storage_name \in DOMAIN written) =>
    /\ cl.result
    /\ cl.out = written[cl.storage_name]

\* ---------------------------------------------------- uploads and crashes
\* Two block servers register and may stop; the client uploads up to two
\* files one after the other.
WriteWrites == 2
WriteCrashes == 2

InitWrite ==
  /\ InitNameNode
  /\ InitOutside
  /\ up = {"n1", "n2"}
  /\ budget = Budget(0, 0, 0, 0, 0) @@ ClientBudget(WriteWrites, 0, WriteCrashes)
  /\ scope = [files |-> {File_f}, mkdirs |-> {}, rmdirs |-> {}, counts |-> {},
              contents |-> {Bytes(1), Bytes(MaxLen)}]

NextWrite ==
  \/ \E n \in Nodes : Register(n) \/ Crash(n)
  \/ \E r \in repl : ReplPick(r) \/ ReplSend(r)
  \/ ClBeginWrite \/ ClSummary \/ ClStoreReply \/ ClReturn
  \/ \E i \in 1..ceil_blocks(MaxLen) : ClBlockAttempt(i)
  \/ \E t \in {"t1"} :
       \/ ClSendStore(t) \/ StorePlace(t) \/ StoreHset(t) \/ StoreCache(t)
       \/ StoreRegister(t)

SpecWrite == InitWrite /\ [][NextWrite]_vars

\* C2: once the client has sent store_metadata for an upload, every block
\* 0..N-1 of it has been answered 'success' by a block server; and a file this
\* upload made visible in the files registry has all its blocks acknowledged.
C2_MetadataAfterAllAcks ==
  cl.op = "write" =>
    /\ cl.sent_store => \A b \in 0..(cl.num_blocks - 1) : b \in acked
    /\ (cl.storage_name \in DOMAIN files /\ cl.storage_name \notin DOMAIN cl.files0)
         => \A b \in 0..(Len(files[cl.storage_name].blocks) - 1) : b \in acked

\* A two-block upload whose metadata was sent after an attempt at one block
\* had failed and was repeated; the file is visible.
C2_Witness ==
  /\ cl.op = "write"
  /\ cl.sent_store
  /\ cl.num_blocks = 2
  /\ \E i \in DOMAIN cl.tasks : cl.tasks[i].attempt > 0
  /\ cl.storage_name \in DOMAIN files

\* C3: when a block of an upload has failed after its attempts, the client
\* does not send store_metadata, write_file returns False, and the files
\* registry and the directories are as they were when the upload began.
C3_FailedUploadLeavesNamespace ==
  (cl.op = "write" /\ \E i \in DOMAIN cl.tasks : cl.tasks[i].pc = "fail") =>
    /\ ~cl.sent_store
    /\ cl.pc \in {"blocks", "write_done"}
    /\ cl.pc = "write_done" => ~cl.result
    /\ files = cl.files0
    /\ directories = cl.dirs0

\* write_file has returned False after one block was stored and another
\* failed, while an earlier upload of the path is registered.
C3_Witness ==
  /\ cl.op = "write"
  /\ cl.pc = "write_done"
  /\ ~cl.result
  /\ \E i \in DOMAIN cl.tasks : cl.tasks[i].pc = "fail"
  /\ \E i \in DOMAIN cl.tasks : cl.tasks[i].pc = "ok"
  /\ cl.storage_name \in DOMAIN files

\* ------------------------------------------------- path <-> storage key
\* The two conversions applied on their own to canonical paths whose
\* components are written with the letters 'a' and '_'.
MaxCompLen == 2
MaxDepth == 2

\* The text of a path: "/" for the root, else '/' before every component.
RECURSIVE PathString(_)
PathString(path) ==
  IF path = Root THEN <<"/">>
  ELSE IF Len(path) = 1 THEN <<"/">> \o Head(path)
  ELSE <<"/">> \o Head(path) \o PathString(Tail(path))

\* str.replace('__', '/'): occurrences are found left to right and do not
\* overlap.
RECURSIVE replace_double_underscores(_)
replace_double_underscores(key) ==
  IF Len(key) < 2 THEN key
  ELSE IF key[1] = "_" /\ key[2] = "_"
       THEN <<"/">> \o replace_double_underscores(SubSeq(key, 3, Len(key)))
       ELSE <<key[1]>> \o replace_double_underscores(Tail(key))

\* NameNode.key_to_path: key.replace('__', '/').
key_to_path(key) == replace_double_underscores(key)

\* '__' in s
HasDoubleUnderscore(s) ==
  \E i \in 1..(Len(s) - 1) : s[i] = "_" /\ s[i + 1] = "_"

Components == UNION {[1..n -> {"a", "_"}] : n \in 1..MaxCompLen}
PathInputs == UNION {[1..n -> Components] : n \in 0..MaxDepth}
\* Paths normalize_path leaves as they are.
CanonicalPaths == {p \in PathInputs : normalize_path(p) = p}

InitPath ==
  /\ InitNameNode
  /\ InitStores
  /\ InitHandlers
  /\ up = {}
  /\ budget = Budget(0, 0, 0, 0, 0)
  /\ scope = [files |-> {}, mkdirs |-> {}, rmdirs |-> {}, counts |-> {}]
  /\ \E p1 \in CanonicalPaths, p2 \in CanonicalPaths :
       probe = [pc |-> "paths", paths |-> <<p1, p2>>, keys |-> <<>>,
                back |-> <<>>]

\* path_to_key of both paths.
ProbePathToKey ==
  /\ probe.pc = "paths"
  /\ probe' = [probe EXCEPT !.pc = "keys",
                 !.keys = <<path_to_key(probe.paths[1]),
                            path_to_key(probe.paths[2])>>]
  /\ UNCHANGED <<nnvars, up, disk, repl, cl, acked, written, dnthr, tmpf, lk, beat>>

\* key_to_path of both keys.
ProbeKeyToPath ==
  /\ probe.pc = "keys"
  /\ probe' = [probe EXCEPT !.pc = "back",
                 !.back = <<key_to_path(probe.keys[1]),
                            key_to_path(probe.keys[2])>>]
  /\ UNCHANGED <<nnvars, up, disk, repl, cl, acked, written, dnthr, tmpf, lk, beat>>

NextPath == ProbePathToKey \/ ProbeKeyToPath

SpecPath == InitPath /\ [][NextPath]_vars

\* C11 (as claimed): for every canonical path P whose text has no '__',
\* key_to_path(path_to_key(P)) is the text of P.
C11_KeyToPathInvertsPathToKey ==
  probe.pc = "back" =>
    \A i \in 1..2 :
      ~HasDoubleUnderscore(PathString(probe.paths[i])) =>
        probe.back[i] = PathString(probe.paths[i])

\* C12 (as claimed): two different canonical paths whose texts have no '__'
\* have different storage keys.
C12_PathToKeyInjective ==
  (/\ probe.pc \in {"keys", "back"}
   /\ probe.paths[1] # probe.paths[2]
   /\ ~HasDoubleUnderscore(PathString(probe.paths[1]))
   /\ ~HasDoubleUnderscore(PathString(probe.paths[2])))
  => probe.keys[1] # probe.keys[2]

\* ------------------------------------------- the namespace, one request at a time
\* One handler thread serves mkdir, store_metadata, delete_file,
\* delete_directory, exists and ls requests on "/a", "/a/b", the file "a" of
\* "/" and the file "f" of "/a"; one block server registers.
DirMkdirs == 3
DirStores == 1
DirDeleteFiles == 1
DirDeleteDirs == 1
DirExists == 1
DirLs == 1

\* "a" in "/"
File_a == F(RawName(FALSE, <<Ca>>), Root)

InitDir ==
  /\ InitNameNode
  /\ InitOutside
  /\ up = {"n1"}
  /\ budget = Budget(DirMkdirs, DirStores, 0, DirDeleteFiles, DirDeleteDirs)
                @@ QueryBudget(DirExists, DirLs)
  /\ scope = [files |-> {File_a, File_a_f}, mkdirs |-> {<<Ca>>, <<Ca, Cb>>},
              rmdirs |-> {<<Ca>>}, counts |-> {MaxBlocks},
              queries |-> {Root, <<Ca>>, <<Ca, Cb>>}]

NextDir ==
  \/ \E n \in Nodes : Register(n)
  \/ BeginMkdir("t1") \/ MkdirCreate("t1")
  \/ BeginStore("t1") \/ StorePlace("t1") \/ StoreHset("t1") \/ StoreCache("t1")
  \/ StoreRegister("t1")
  \/ BeginDeleteFile("t1") \/ DelHget("t1") \/ DelUnlink("t1") \/ DelHdel("t1")
  \/ DelCachePop("t1") \/ DelReturn("t1")
  \/ BeginDeleteDir("t1") \/ DdCollect("t1") \/ DdHget("t1") \/ DdHdel("t1")
  \/ DdCachePop("t1") \/ DdDirs("t1")
  \/ Exists("t1") \/ Ls("t1")

SpecDir == InitDir /\ [][NextDir]_vars

\* A mkdir request is answered in this step: by the first check, or by the
\* thread that went on to create the directory.
MkdirResponds ==
  \/ budget'["mkdir"] < budget["mkdir"] /\ last'.ev = "mkdir"
  \/ \E t \in Threads : thr[t].pc = "mkdir_create" /\ thr'[t].pc # "mkdir_create"

\* path is a directory or a file of the namespace.
IsDirOrFile(path) ==
  \/ path \in DOMAIN directories
  \/ \E k \in DOMAIN files : files[k].full_path = path

C14_MkdirThenExistsAndLs ==
  [][(last.ev = "mkdir" /\ last.ok) =>
       /\ (last'.ev = "exists" /\ normalize_path(last'.path) = last.path)
            => last'.ok
       /\ (last'.ev = "ls" /\ last'.path = get_parent_path(last.path))
            => /\ last'.ok
               /\ \E e \in last'.contents :
                    e.name = basename(last.path) /\ e.type = "directory"]_vars

\* C17 (as claimed): in every directory, no name is both a child directory and
\* a file.
C17_ChildrenAndFilesDisjoint ==
  \A d \in DOMAIN directories :
    DOMAIN directories[d].children \cap DOMAIN directories[d].files = {}

\* ------------------------------------------------ concurrent namespace requests
\* Two handler threads serve mkdir "/a" (more than once), store_metadata and
\* delete_file of "f" in "/a", and delete_directory of "/a", "/.." and "/a/..".
ConcMkdirs == 2
ConcStores == 1
ConcDeleteFiles == 1
ConcDeleteDirs == 1

InitConc ==
  /\ InitNameNode
  /\ InitOutside
  /\ up = {"n1"}
  /\ budget = Budget(ConcMkdirs, ConcStores, 0, ConcDeleteFiles, ConcDeleteDirs)
  /\ scope = [files |-> {File_a_f}, mkdirs |-> {<<Ca>>},
              rmdirs |-> {<<Ca>>, <<DotDot>>, <<Ca, DotDot>>},
              counts |-> {MaxBlocks}]

NextConc ==
  \/ \E n \in Nodes : Register(n)
  \/ \E t \in Threads : BeginMkdir(t)
  \/ \E t \in Threads : MkdirCreate(t)
  \/ \E t \in Threads : BeginStore(t)
  \/ \E t \in Threads : StorePlace(t)
  \/ \E t \in Threads : StoreHset(t)
  \/ \E t \in Threads : StoreCache(t)
  \/ \E t \in Threads : StoreRegister(t)
  \/ \E t \in Threads : BeginDeleteFile(t)
  \/ \E t \in Threads : DelHget(t)
  \/ \E t \in Threads : DelUnlink(t)
  \/ \E t \in Threads : DelHdel(t)
  \/ \E t \in Threads : DelCachePop(t)
  \/ \E t \in Threads : DelReturn(t)
  \/ \E t \in Threads : BeginDeleteDir(t)
  \/ \E t \in Threads : DdCollect(t)
  \/ \E t \in Threads : DdHget(t)
  \/ \E t \in Threads : DdHdel(t)
  \/ \E t \in Threads : DdCachePop(t)
  \/ \E t \in Threads : DdDirs(t)

SpecConc == InitConc /\ [][NextConc]_vars

\* Only mkdir requests have been sent so far: "/a" was absent and "/" present
\* when the first of them came.
OnlyMkdirsSoFar ==
  /\ budget["store"] = ConcStores
  /\ budget["delete_file"] = ConcDeleteFiles
  /\ budget["delete_directory"] = ConcDeleteDirs

\* The mkdir requests answered so far.
MkdirsAnswered ==
  ConcMkdirs - budget["mkdir"]
    - Cardinality({t \in Threads : thr[t].pc = "mkdir_create"})

\* C15: of the mkdir requests for one absent path with its parent present,
\* sent to the two handler threads in any order, the first one answered
\* succeeds and every other one fails, and the parent then lists the name
\* once, as a directory.
C15_OneConcurrentMkdirSucceeds ==
  [][(OnlyMkdirsSoFar /\ MkdirResponds) =>
       /\ last'.ev = "mkdir"
       /\ last'.ok <=> (MkdirsAnswered = 0)
       /\ Cardinality({e \in (list_directory(Root).contents)' :
                         e.name = basename(last'.path)}) = 1
       /\ \E e \in (list_directory(Root).contents)' :
            e.name = basename(last'.path) /\ e.type = "directory"]_vars

\* The second mkdir of "/a" was answered and refused, nothing but mkdir having
\* been sent.
C15_Witness ==
  /\ OnlyMkdirsSoFar
  /\ budget["mkdir"] = 0
  /\ last.ev = "mkdir"
  /\ ~last.ok
  /\ last.path = <<Ca>>
  /\ Ca \in DOMAIN directories[Root].children

\* A delete_directory request whose path normalises to "/" is answered in
\* this step.
DeleteRootResponds ==
  /\ budget'["delete_directory"] < budget["delete_directory"]
  /\ last'.ev = "delete_directory"
  /\ last'.path = Root

\* C16: 'directories' has the root before and after every step of mkdir,
\* store_metadata, delete_file and delete_directory, and a delete_directory of
\* the root ("/.." and "/a/.." included) is refused and changes nothing.
C16_RootAlwaysExists ==
  [][/\ Root \in DOMAIN directories
     /\ Root \in DOMAIN directories'
     /\ DeleteRootResponds =>
          /\ ~last'.ok
          /\ directories' = directories
          /\ files' = files
          /\ metadata_cache' = metadata_cache]_vars

\* A delete_directory of the root was refused while "/a" was there.
C16_Witness ==
  /\ last.ev = "delete_directory"
  /\ last.path = Root
  /\ ~last.ok
  /\ <<Ca>> \in DOMAIN directories

\* -------------------------------------------------- membership as reported
\* Three block servers register and send heartbeats or fall silent, time
\* passes, the monitor scans and removes; get_datanodes, get_datanode and the
\* placements of store_metadata report the membership.
LiveStores == 1

InitLive ==
  /\ InitNameNode
  /\ InitOutside
  /\ up = {"n1", "n2", "n3"}
  /\ budget = Budget(0, LiveStores, 0, 0, 0)
  /\ scope = [files |-> {File_f}, mkdirs |-> {}, rmdirs |-> {}, counts |-> {MaxBlocks}]

NextLive ==
  \/ \E n \in Nodes : Register(n)
  \/ \E n \in Nodes : Heartbeat(n)
  \/ Tick \/ MonitorScan \/ MonitorRemove
  \/ GetDatanodes \/ GetDatanode
  \/ BeginStore("t1") \/ StorePlace("t1") \/ StoreHset("t1") \/ StoreCache("t1")
  \/ StoreRegister("t1")

SpecLive == InitLive /\ [][NextLive]_vars

\* The answer or the placement of the last step names block server a.
Reported(a) ==
  \/ last.ev \in {"get_datanodes", "get_datanode"} /\ a \in Range(last.nodes)
  \/ last.ev = "place" /\ a \in Range(last.sel)

\* C18 (as claimed): a block server named by get_datanodes, by get_datanode or
\* by a placement was heard of within the last heartbeat_timeout seconds, and
\* get_datanodes names every block server that was.
C18_ReportedIffHeardOfInTime ==
  \A i \in 1..Len(datanodes) :
    /\ Reported(datanodes[i].addr) => now - datanodes[i].hb <= heartbeat_timeout
    /\ (last.ev = "get_datanodes" /\ now - datanodes[i].hb <= heartbeat_timeout)
         => datanodes[i].addr \in Range(last.nodes)

\* ------------------------------------------------------ the block lists
\* store_metadata of "f" and "g" with 0 to MaxCount blocks of block_size bytes,
\* and get_metadata of them, served one at a time; one block server.
MaxCount == 2
CountStores == 2
CountGets == 1

InitCount ==
  /\ InitNameNode
  /\ InitOutside
  /\ up = {"n1"}
  /\ budget = Budget(0, CountStores, CountGets, 0, 0)
  /\ scope = [files |-> {File_f, File_g}, mkdirs |-> {}, rmdirs |-> {},
              counts |-> 0..MaxCount]

NextCount ==
  \/ \E n \in Nodes : Register(n)
  \/ BeginStore("t1") \/ StorePlace("t1") \/ StoreHset("t1") \/ StoreCache("t1")
  \/ StoreRegister("t1")
  \/ BeginGet("t1") \/ GetCache("t1") \/ GetLiveHit("t1") \/ GetFilter("t1")
  \/ GetAssign("t1") \/ GetCheckLoc("t1") \/ GetDumps("t1")

SpecCount == InitCount /\ [][NextCount]_vars

\* The block list of md has ceil(total_size / block_size) blocks, none larger
\* than block_size, their sizes add up to total_size and their ids are
\* 0, 1, ... in list order.
BlocksWellFormed(md) ==
  /\ Len(md.blocks) = (md.total_size + block_size - 1) \div block_size
  /\ \A i \in 1..Len(md.blocks) :
       md.blocks[i].size <= block_size /\ md.blocks[i].block_id = i - 1
  /\ md.total_size = SumSizes(md.blocks)

\* C19: every record of the files registry, every cached metadata object and
\* every get_metadata answer has a well-formed block list.
C19_BlockListsWellFormed ==
  /\ \A k \in DOMAIN files : BlocksWellFormed(files[k])
  /\ \A o \in DOMAIN objs : BlocksWellFormed(objs[o])
  /\ (last.ev = "get_metadata" /\ last.ok) => BlocksWellFormed(last.resp)

\* A file of MaxCount blocks is stored and a get_metadata of it was answered.
C19_Witness ==
  /\ last.ev = "get_metadata"
  /\ last.ok
  /\ Len(last.resp.blocks) = MaxCount
  /\ last.key \in DOMAIN files

\* ------------------------------------------------------ the size of an upload
\* The cluster start_dfs.py starts; the client uploads one file "f" of 1 to
\* MaxLen bytes into "/" and "/" is listed.
SizeWrites == 1
SizeLs == 1

InitSize ==
  /\ InitCoordinator(StartedCluster)
  /\ InitOutside
  /\ up = {"n1", "n2", "n3"}
  /\ budget = Budget(0, 0, 0, 0, 0) @@ ClientBudget(SizeWrites, 0, 0)
                @@ QueryBudget(0, SizeLs)
  /\ scope = [files |-> {File_f}, mkdirs |-> {}, rmdirs |-> {}, counts |-> {},
              contents |-> {Bytes(n) : n \in 1..MaxLen}, queries |-> {Root}]

NextSize ==
  \/ \E n \in Nodes : Register(n)
  \/ \E r \in repl : ReplPick(r) \/ ReplSend(r)
  \/ ClBeginWrite \/ ClSummary \/ ClStoreReply \/ ClReturn
  \/ \E i \in 1..ceil_blocks(MaxLen) : ClBlockAttempt(i)
  \/ ClSendStore("t1") \/ StorePlace("t1") \/ StoreHset("t1") \/ StoreCache("t1")
  \/ StoreRegister("t1")
  \/ Ls("t1")

SpecSize == InitSize /\ [][NextSize]_vars

\* C20 (as claimed): once an upload of S bytes has returned success, the
\* total_size of the file's record is S and an ls of its parent directory shows
\* the file with size S.
C20_RecordedSizeIsUploadedSize ==
  \A k \in DOMAIN written :
    /\ k \in DOMAIN files
    /\ files[k].total_size = Len(written[k])
    /\ (last.ev = "ls" /\ last.path = get_parent_path(files[k].full_path)) =>
         \E e \in last.contents :
           /\ e.type = "file"
           /\ e.name = basename(files[k].full_path)
           /\ e.size = Len(written[k])

\* ------------------------------------------------------- name resolution
\* One handler thread serves mkdir "/a", and store_metadata, get_metadata and
\* delete_file of the names "f" (from "/a" and from "/a/b"), "/a/f", "a/f"
\* (from "/") and ".." (from "/a"); one block server registers. The one file
\* stored stays in the cache until it is deleted, so a get_metadata that misses
\* the cache finds nothing in the registry either.
ResolveMkdirs == 1
ResolveStores == 1
ResolveGets == 1
ResolveDeleteFiles == 1

\* "f" in "/a/b", "a/f" in "/", ".." in "/a"
File_ab_f == F(RawName(FALSE, <<Cf>>), <<Ca, Cb>>)
File_rel_a_f == F(RawName(FALSE, <<Ca, Cf>>), Root)
File_a_dotdot == F(RawName(FALSE, <<DotDot>>), <<Ca>>)

InitResolve ==
  /\ InitNameNode
  /\ InitOutside
  /\ up = {"n1"}
  /\ budget = Budget(ResolveMkdirs, ResolveStores, ResolveGets,
                     ResolveDeleteFiles, 0)
  /\ scope = [files |-> {File_a_f, File_ab_f, File_rel_a_f,
                         F(RawName(TRUE, <<Ca, Cf>>), Root), File_a_dotdot},
              mkdirs |-> {<<Ca>>}, rmdirs |-> {}, counts |-> {MaxBlocks}]

NextResolve ==
  \/ \E n \in Nodes : Register(n)
  \/ BeginMkdir("t1") \/ MkdirCreate("t1")
  \/ BeginStore("t1") \/ StorePlace("t1") \/ StoreHset("t1") \/ StoreCache("t1")
  \/ StoreRegister("t1")
  \/ BeginGet("t1") \/ GetCache("t1") \/ GetLiveHit("t1") \/ GetFilter("t1")
  \/ GetAssign("t1") \/ GetCheckLoc("t1") \/ GetDumps("t1")
  \/ GetHget("t1")
  \/ BeginDeleteFile("t1") \/ DelHget("t1") \/ DelUnlink("t1") \/ DelHdel("t1")
  \/ DelCachePop("t1") \/ DelReturn("t1")

SpecResolve == InitResolve /\ [][NextResolve]_vars

\* The canonical form of the name taken from the directory cwd: of the name
\* itself when it begins with '/', else of cwd + '/' + name.
CanonicalName(name, cwd) ==
  IF name.abs THEN normalize_path(name.comps)
  ELSE normalize_path(normalize_path(cwd) \o name.comps)

\* C21 (as claimed): when get_metadata or delete_file goes on with the path
\* its name resolved to, that path is the canonical form of the name taken
\* from cwd, and it was there (a directory or a file) when the name was
\* resolved.
C21_NamesResolveToCanonicalPath ==
  [][\A t \in Threads :
       (thr[t].pc = "idle" /\ thr'[t].op \in {"get_metadata", "delete_file"}) =>
         /\ thr'[t].path = CanonicalName(thr'[t].name, thr'[t].cwd)
         /\ IsDirOrFile(thr'[t].path)]_vars

\* ------------------------------------------------ one block file, two writers
\* start_dfs.py has started the coordinator and three block servers; a fourth
\* registers at any moment. Two connections to block server n1 carry
\* write_block and replicate_block requests for the same block with different
\* payloads, their handler threads run step by step next to read_block
\* requests and to the replication threads; one block server may stop.
DiskWrites == 2
DiskCrashes == 1

InitDisk ==
  /\ InitCoordinator(StartedCluster)
  /\ InitOutside
  /\ up = Nodes
  /\ budget = Budget(0, 0, 0, 0, 0) @@ ClientBudget(0, 0, DiskCrashes)
                @@ [k \in {"dnwrite"} |-> DiskWrites]
  /\ scope = [dnodes |-> {"n1"}, kinds |-> {"write_block", "replicate_block"},
              blocks |-> {[name |-> BlockName(path_to_key(<<Cf>>), 0),
                           data |-> d] : d \in {Bytes(2), <<3>>}}]

NextDisk ==
  \/ \E n \in Nodes : Register(n)
  \/ \E w \in Writers : DnBegin(w)
  \/ \E w \in Writers : DnOpen(w)
  \/ \E w \in Writers : DnWrite(w)
  \/ \E w \in Writers : DnReplace(w)
  \/ \E w \in Writers : DnAck(w)
  \/ \E w \in Writers : DnSpawn(w)
  \/ \E n \in Nodes : DnRead(n)
  \/ \E r \in repl : ReplPick(r)
  \/ \E r \in repl : ReplSend(r)
  \/ \E n \in Nodes : Crash(n)

SpecDisk == InitDisk /\ [][NextDisk]_vars

\* The block servers that hold a file for the block.
Holders(name) == {n \in Nodes : name \in DOMAIN disk[n]}

\* C22: handle_write_block answers 'success' only when the block file is on
\* its own disk and before its replication thread exists; a replication
\* thread is started only by a handler that has already answered 'success'
\* and whose block file is there; from then on, as long as the block server
\* runs, the answer stays 'success' and the block file stays, and no step of
\* a replication thread (sampling, sending, giving up on a peer) touches the
\* disk of the block server it runs on.
C22_AckBeforeAndWhateverReplication ==
  [][/\ \A w \in Writers :
         LET h == dnthr[w]
         IN /\ (h.kind = "write_block" /\ h.reply # "success"
                  /\ dnthr'[w].reply = "success")
                 => /\ h.name \in DOMAIN disk[h.node]
                    /\ repl' = repl
            /\ (h.reply = "success" /\ h.node \in up')
                 => /\ dnthr'[w].reply = "success"
                    /\ h.name \in DOMAIN disk'[h.node]
     /\ \A r \in repl' \ repl :
          r.pc = "pick"
            => \E v \in Writers :
                 /\ dnthr[v].reply = "success"
                 /\ r = NewReplication(dnthr[v].node, dnthr[v].name, dnthr[v].data)
                 /\ r.name \in DOMAIN disk[r.src]
     /\ \A q \in repl \ repl' : q.src \in up' => disk'[q.src] = disk[q.src]
    ]_vars

\* A write_block was answered 'success', its replication thread has ended
\* after one of the two sampled peers refused both attempts, and the primary
\* copy is on disk.
C22_Witness ==
  \E w \in Writers :
    /\ dnthr[w].kind = "write_block"
    /\ dnthr[w].reply = "success"
    /\ dnthr[w].pc = "done"
    /\ repl = {}
    /\ Len(datanodes) = Len(StartedCluster)
    /\ up # Nodes
    /\ dnthr[w].node \in Holders(dnthr[w].name)
    /\ Cardinality(Holders(dnthr[w].name)) = replication_factor - 1

\* The complete payloads of the writes that may be sent for the block.
Payloads(name) == {b.data : b \in {c \in scope.blocks : c.name = name}}

\* C26: on a running block server a block file holds the complete payload of
\* one write, a read_block that is answered returns such a payload, and no
\* temp file exists while no handler thread is writing.
C26_BlockFileCompleteOrAbsent ==
  /\ \A n \in up : \A name \in DOMAIN disk[n] : disk[n][name] \in Payloads(name)
  /\ (last.ev = "read_block" /\ last.ok)
       => \E b \in scope.blocks : last.data = b.data
  /\ (\A w \in Writers : dnthr[w].pc \in {"idle", "done"}) => tmpf = EmptyMap

\* C27: a replication thread is started only by the handler of a write_block
\* command: no step of a handle_replicate_block thread adds a replication
\* thread, and every new replication thread belongs to a write_block handler
\* that is past its answer.
C27_ReplicationIsSingleHop ==
  [][\A r \in repl' \ repl :
       r.pc = "pick"
         => \E w \in Writers :
              /\ dnthr[w].kind = "write_block"
              /\ dnthr[w].pc = "spawn"
              /\ dnthr'[w].pc = "done"
              /\ r.src = dnthr[w].node
              /\ r.name = dnthr[w].name
              /\ \A v \in Writers \ {w} : dnthr'[v] = dnthr[v]
    ]_vars

\* A block that came through replicate_block is on a block server's disk, its
\* handler has answered and returned, and no replication thread exists.
C27_Witness ==
  \E w \in Writers :
    /\ dnthr[w].kind = "replicate_block"
    /\ dnthr[w].pc = "done"
    /\ dnthr[w].reply = "success"
    /\ dnthr[w].name \in DOMAIN disk[dnthr[w].node]
    /\ disk[dnthr[w].node][dnthr[w].name] = dnthr[w].data
    /\ repl = {}
    /\ \A v \in Writers \ {w} : dnthr[v].pc = "idle"

\* ------------------------------------------------------ the replication task
\* The coordinator runs with none, one, two or three block servers registered
\* and the others register at any moment; write_block requests reach block
\* server n1, whose replication threads ask for the live set, sample and send
\* with up to send_retries attempts per peer; one block server may stop.
ReplWrites == 1
ReplCrashes == 1

InitRepl ==
  /\ \E k \in 0..Len(StartedCluster) :
       InitCoordinator(SubSeq(StartedCluster, 1, k))
  /\ InitOutside
  /\ up = Nodes
  /\ budget = Budget(0, 0, 0, 0, 0) @@ ClientBudget(0, 0, ReplCrashes)
                @@ [k \in {"dnwrite"} |-> ReplWrites]
  /\ scope = [dnodes |-> {"n1"}, kinds |-> {"write_block"},
              blocks |-> {[name |-> BlockName(path_to_key(<<Cf>>), 0),
                           data |-> Bytes(2)]}]

NextRepl ==
  \/ \E n \in Nodes : Register(n)
  \/ \E w \in Writers : DnBegin(w)
  \/ \E w \in Writers : DnOpen(w)
  \/ \E w \in Writers : DnWrite(w)
  \/ \E w \in Writers : DnReplace(w)
  \/ \E w \in Writers : DnAck(w)
  \/ \E w \in Writers : DnSpawn(w)
  \/ \E r \in repl : ReplPick(r)
  \/ \E r \in repl : ReplSend(r)
  \/ \E n \in Nodes : Crash(n)

SpecRepl == InitRepl /\ [][NextRepl]_vars

\* The smaller of two numbers.
Min(a, b) == IF a < b THEN a ELSE b

\* C28: the step of a replication thread that samples ends the thread when
\* the live set holds no other block server, else it keeps exactly
\* min(replication_factor - 1, number of other live block servers) of them; a
\* sending step sends to one of the sampled peers that is not the sender, is
\* at most the second attempt for that peer, touches no other disk, and
\* leaves the thread with the same or fewer peers to go.
C28_ReplicatesToSampledPeers ==
  [][\A r \in repl \ repl' :
       up' = up =>
         IF r.pc = "pick"
           THEN LET available_nodes == LiveSet \ {r.src}
                    k == Min(replication_factor - 1, Cardinality(available_nodes))
                IN /\ disk' = disk
                   /\ IF k = 0 THEN repl' = repl \ {r}
                      ELSE \E S \in SUBSET available_nodes :
                             /\ Cardinality(S) = k
                             /\ repl' = (repl \ {r}) \cup
                                  {[r EXCEPT !.pc = "send", !.targets = S]}
           ELSE /\ r.src \notin r.targets
                /\ r.attempt < send_retries
                /\ \E node \in r.targets :
                     /\ \A n \in Nodes \ {node} : disk'[n] = disk[n]
                     /\ r.node \in {"none", node}
                     /\ \A q \in repl' \ repl :
                          \/ q = [r EXCEPT !.node = node, !.attempt = r.attempt + 1]
                          \/ q = [r EXCEPT !.targets = r.targets \ {node},
                                           !.node = "none", !.attempt = 0]
    ]_vars

\* A write_block was answered, three other block servers are live, and its
\* replication thread has ended with the block on replication_factor disks:
\* its own and those of the two sampled peers.
C28_Witness ==
  /\ \E w \in Writers : dnthr[w].pc = "done" /\ dnthr[w].reply = "success"
  /\ repl = {}
  /\ Cardinality(LiveSet \ {"n1"}) >= replication_factor
  /\ Cardinality(Holders(BlockName(path_to_key(<<Cf>>), 0))) = replication_factor

\* C23: every step of a handler thread that writes the directories map or the
\* files registry is taken inside a critical section of dir_lock: the thread
\* holds the lock, or takes it for that step because it is free; no such
\* write happens while another thread is inside its own critical section.
C23_WritesUnderDirLock ==
  [][\A t \in Threads :
       (thr'[t] # thr[t] /\ (files' # files \/ directories' # directories))
         => dir_lock \in {"free", t}
    ]_vars

\* C24: after every step each block of each record of the files registry has
\* at least one location, and a step in which store_metadata fails leaves the
\* files registry, the directories map and the cache as they were.
C24_StoredBlocksHaveLocations ==
  [][/\ \A k \in DOMAIN files' :
         \A i \in 1..Len(files'[k].blocks) : files'[k].blocks[i].locations # <<>>
     /\ (last'.ev = "store_metadata" /\ ~last'.ok)
          => /\ files' = files
             /\ directories' = directories
             /\ metadata_cache' = metadata_cache
    ]_vars

\* ---------------------------------------------------------- lock ordering
\* Two handler threads serve requests of every kind and the monitor runs its
\* rounds, each making the acquisitions and releases of its code path.
LockOps == 3

InitLock ==
  /\ InitNameNode
  /\ InitOutside
  /\ up = {}
  /\ budget = Budget(0, 0, 0, 0, 0) @@ [k \in {"lockop"} |-> LockOps]
  /\ scope = [files |-> {}, mkdirs |-> {}, rmdirs |-> {}, counts |-> {}]

NextLock ==
  \/ \E t \in LockThreads : LockBegin(t)
  \/ \E t \in LockThreads : LockAcquire(t)
  \/ \E t \in LockThreads : LockRelease(t)

SpecLock == InitLock /\ [][NextLock]_vars

\* The locks thread t owns.
HeldBy(t) == {l \in Locks : lk.owner[l] = t}

\* A position of each lock in one total order.
LockRank(l) ==
  CASE l = "dir_lock" -> 0 [] l = "cache_lock" -> 1 [] l = "load_lock" -> 2
    [] OTHER -> 3

\* C25: a thread about to acquire a lock does not own it, owns nothing when
\* the lock is dir_lock, and owns only locks that come earlier in one fixed
\* order; and whenever some thread is inside a request, some thread can take
\* its next step.
C25_LockOrderAcyclicNoDeadlock ==
  /\ \A t \in LockThreads :
       (lk.run[t] # <<>> /\ Head(lk.run[t])[1] = "acquire")
         => LET l == Head(lk.run[t])[2]
            IN /\ l \notin HeldBy(t)
               /\ l = "dir_lock" => HeldBy(t) = {}
               /\ \A m \in HeldBy(t) : LockRank(m) < LockRank(l)
  /\ (\E t \in LockThreads : lk.run[t] # <<>>)
       => \E t \in LockThreads :
            /\ lk.run[t] # <<>>
            /\ \/ Head(lk.run[t])[1] = "release"
               \/ lk.owner[Head(lk.run[t])[2]] = "free"

\* One handler thread owns dir_lock and cache_lock, the other waits for
\* cache_lock, and the monitor owns datanodes_lock.
C25_Witness ==
  \E t, u \in Threads :
    /\ HeldBy(t) = {"dir_lock", "cache_lock"}
    /\ lk.run[u] # <<>>
    /\ Head(lk.run[u]) = Acq("cache_lock")
    /\ HeldBy("monitor") = {"datanodes_lock"}

\* C29: during a download the block servers contacted for block i are, in
\* order, the locations of its metadata starting at index i mod |L| and going
\* round, none twice; a contact is made only by a task that has no data yet,
\* the task ends with the data as soon as a contacted server returns
\* non-empty data, and it ends as failed only when all |L| locations have been
\* contacted, and then read_file returns False.
C29_ReplicasTriedInRotatedOrder ==
  [][/\ (cl'.pc = "read_done" /\ \E i \in DOMAIN cl'.tasks : cl'.tasks[i].pc = "fail")
          => ~cl'.result
     /\ (cl.pc = "reading" /\ cl'.pc = "reading") =>
       \A i \in DOMAIN cl.tasks :
         LET L == cl.md.blocks[i].locations
             T == cl'.tasks[i].tried
             name == BlockName(cl.md.storage_name, cl.md.blocks[i].block_id)
         IN /\ Len(T) <= Len(L)
            /\ \A j \in 1..Len(T) : T[j] = L[((i - 1 + j - 1) % Len(L)) + 1]
            /\ cl'.tasks[i].pc = "fail" => Len(T) = Len(L)
            /\ T # cl.tasks[i].tried
                 => /\ cl.tasks[i].pc = "run"
                    /\ T = Append(cl.tasks[i].tried, Last(T))
                    /\ IF /\ Last(T) \in up
                          /\ name \in DOMAIN disk[Last(T)]
                          /\ disk[Last(T)][name] # <<>>
                         THEN /\ cl'.tasks[i].pc = "ok"
                              /\ cl'.tasks[i].data = disk[Last(T)][name]
                         ELSE cl'.tasks[i].pc # "ok"
    ]_vars

\* The download task of the second block found nothing at its first
\* location, which is the second of its metadata, and got the data from the
\* next one.
C29_Witness ==
  /\ cl.pc = "reading"
  /\ Len(cl.tasks) = 2
  /\ cl.tasks[2].pc = "ok"
  /\ Len(cl.tasks[2].tried) = 2
  /\ cl.tasks[2].tried[1] = cl.md.blocks[2].locations[2]

\* C30: when read_file has returned success the output is the data fetched
\* for block 0, then for block 1, and so on in the order of the metadata.
C30_OutputInMetadataOrder ==
  (cl.pc = "read_done" /\ cl.result)
    => cl.out = Concat([i \in 1..Len(cl.md.blocks) |-> cl.tasks[i].data])

\* A download returned success although the task of the second block
\* completed before the task of the first.
C30_Witness ==
  /\ cl.pc = "read_done"
  /\ cl.result
  /\ Len(cl.tasks) = 2
  /\ cl.tasks[2].seq < cl.tasks[1].seq
  /\ cl.tasks[1].data # cl.tasks[2].data

\* ------------------------------------------------ one block, stopping servers
\* The three block servers of start_dfs.py are registered and a fourth
\* registers at any moment; up to three of them stop while the client uploads
\* a one-block file, so that a block task meets up to three refusals.
SendWrites == 1
SendCrashes == 3

InitSend ==
  /\ InitCoordinator(StartedCluster)
  /\ InitOutside
  /\ up = Nodes
  /\ budget = Budget(0, 0, 0, 0, 0) @@ ClientBudget(SendWrites, 0, SendCrashes)
  /\ scope = [files |-> {File_f}, mkdirs |-> {}, rmdirs |-> {}, counts |-> {},
              contents |-> {Bytes(1)}]

SpecSend == InitSend /\ [][NextWrite]_vars

\* C31: an upload task sends write_block at most max_retries times and never
\* twice to the same block server; a send is made only by a task that has not
\* ended, the task ends with success in the step in which a running block
\* server takes the block, and it does not end with success in a step in which
\* the send fails; a task that has failed has no acknowledged send.
C31_UploadTriesEachNodeOnce ==
  [][(cl.pc = "blocks" /\ cl'.pc = "blocks") =>
       \A i \in DOMAIN cl.tasks :
         LET S == cl'.tasks[i].sent
         IN /\ Len(S) <= max_retries
            /\ \A j, k \in 1..Len(S) : j # k => S[j] # S[k]
            /\ cl'.tasks[i].pc = "fail" => (i - 1) \notin acked'
            /\ S # cl.tasks[i].sent
                 => /\ cl.tasks[i].pc = "run"
                    /\ S = Append(cl.tasks[i].sent, Last(S))
                    /\ cl'.tasks[i].pc = "ok" <=> Last(S) \in up
                    /\ Last(S) \in up => (i - 1) \in acked'
    ]_vars

\* An upload task was refused by two block servers that had stopped and was
\* acknowledged by a third.
C31_Witness ==
  /\ cl.pc = "blocks"
  /\ \E i \in DOMAIN cl.tasks :
       /\ cl.tasks[i].pc = "ok"
       /\ Len(cl.tasks[i].sent) = max_retries

\* ------------------------------------------------------- the deletion plan
\* One handler thread serves mkdir "/a" and "/a/b", store_metadata of "/a/f"
\* and "/a/b/f", delete_file and delete_directory requests in any order.
PlanMkdirs == 2
PlanStores == 2
PlanDeleteFiles == 1
PlanDeleteDirs == 1

InitPlan ==
  /\ InitNameNode
  /\ InitOutside
  /\ up = {"n1"}
  /\ budget = Budget(PlanMkdirs, PlanStores, 0, PlanDeleteFiles, PlanDeleteDirs)
  /\ scope = [files |-> {File_a_f, File_a_b_f}, mkdirs |-> {<<Ca>>, <<Ca, Cb>>},
              rmdirs |-> {<<Ca>>, <<Ca, Cb>>}, counts |-> {MaxBlocks}]

NextPlan ==
  \/ \E n \in Nodes : Register(n)
  \/ BeginMkdir("t1") \/ MkdirCreate("t1")
  \/ BeginStore("t1") \/ StorePlace("t1") \/ StoreHset("t1") \/ StoreCache("t1")
  \/ StoreRegister("t1")
  \/ BeginDeleteFile("t1") \/ DelHget("t1") \/ DelUnlink("t1") \/ DelHdel("t1")
  \/ DelCachePop("t1") \/ DelReturn("t1")
  \/ BeginDeleteDir("t1") \/ DdCollect("t1") \/ DdHget("t1") \/ DdHdel("t1")
  \/ DdCachePop("t1") \/ DdDirs("t1")

SpecPlan == InitPlan /\ [][NextPlan]_vars

\* The plan entries of one file record: one per block.
PlanEntries(md) ==
  {[block_id |-> md.blocks[i].block_id, locations |-> md.blocks[i].locations,
    storage_name |-> md.storage_name] : i \in 1..Len(md.blocks)}

\* The keys of the file records whose path lies under directory D.
FilesUnder(reg, D) ==
  {k \in DOMAIN reg : /\ Len(reg[k].full_path) > Len(D)
                      /\ SubSeq(reg[k].full_path, 1, Len(D)) = D}

\* C32: the plan delete_file returns has one entry per block of the record
\* it removed, with the block's id and locations and the file's storage name;
\* the plan delete_directory(D) returns holds exactly the entries of every
\* file that was under D, and its two counts are the numbers of file records
\* and of directory records that the request removed.
C32_DeletionPlanCoversWhatIsRemoved ==
  [][\A t \in Threads :
       /\ (thr[t].pc = "del_return" /\ last'.ev = "delete_file" /\ last'.ok)
            => LET md == thr[t].files0[thr[t].key]
               IN /\ Len(last'.plan) = Len(md.blocks)
                  /\ \A i \in 1..Len(md.blocks) :
                       last'.plan[i] = [block_id |-> md.blocks[i].block_id,
                                        locations |-> md.blocks[i].locations,
                                        storage_name |-> md.storage_name]
       /\ (thr[t].pc = "dd_dirs" /\ last'.ev = "delete_directory" /\ last'.ok)
            => LET f0 == thr[t].files0
                   d0 == thr[t].dirs0
                   under == FilesUnder(f0, thr[t].path)
               IN /\ Range(last'.plan) = UNION {PlanEntries(f0[k]) : k \in under}
                  /\ Len(last'.plan) = Cardinality(Range(last'.plan))
                  /\ last'.deleted_files
                       = Cardinality((DOMAIN f0) \ (DOMAIN files'))
                  /\ last'.deleted_directories
                       = Cardinality((DOMAIN d0) \ (DOMAIN directories'))
    ]_vars

\* ----------------------------------------------------- the heartbeat threads
\* Two block servers run their heartbeat threads against a coordinator that
\* can be reached at some times and not at others; time passes, and the
\* monitor removes the servers it has not heard of.
max_consecutive_failures == 5

\* NameNode.update_heartbeat with a heartbeat that only refreshes.
update_heartbeat_known_only(dn, addr, t) ==
  [i \in 1..Len(dn) |-> IF dn[i].addr = addr THEN [addr |-> addr, hb |-> t] ELSE dn[i]]

\* NameNode.update_heartbeat: a known address gets the current time; an
\* address that is not in the map goes through register_datanode.
update_heartbeat(dn, addr, t) ==
  LET refreshed == [i \in 1..Len(dn) |->
                      IF dn[i].addr = addr THEN [addr |-> addr, hb |-> t] ELSE dn[i]]
  IN IF addr \in {refreshed[i].addr : i \in 1..Len(refreshed)}
       THEN refreshed
       ELSE SetHeartbeat(refreshed, addr, t)

\* The connection to the coordinator breaks or comes back.
NetFlip ==
  /\ beat' = [beat EXCEPT !.reach = ~@]
  /\ last' = NoEvent
  /\ UNCHANGED <<directories, files, metadata_cache, objs, datanodes,
                 datanode_load, dir_lock, now, thr, mon, budget, scope, recency>>
  /\ UNCHANGED <<up, disk, repl, cl, acked, written, probe, dnthr, tmpf, lk>>

\* One round of DataNode.send_heartbeat: the heartbeat is answered and
\* consecutive_failures is reset, or it raises after its retries and
\* consecutive_failures is incremented; at max_consecutive_failures the
\* thread goes on to register_with_namenode.
SendHeartbeat(n) ==
  /\ n \in up
  /\ beat.pc[n] = "heartbeat"
  /\ IF beat.reach
       THEN /\ datanodes' = update_heartbeat(datanodes, n, now)
            /\ beat' = [beat EXCEPT !.fails[n] = 0]
       ELSE /\ datanodes' = datanodes
            /\ beat' = [beat EXCEPT
                 !.fails[n] = @ + 1,
                 !.pc[n] = IF beat.fails[n] + 1 >= max_consecutive_failures
                             THEN "register" ELSE "heartbeat"]
  /\ last' = [NoEvent EXCEPT !.ev = "heartbeat", !.ok = beat.reach,
                             !.nodes = <<n>>, !.fresh = n \notin LiveSet]
  /\ UNCHANGED <<directories, files, metadata_cache, objs, datanode_load,
                 dir_lock, now, thr, mon, budget, scope, recency>>
  /\ UNCHANGED <<up, disk, repl, cl, acked, written, probe, dnthr, tmpf, lk>>

\* register_with_namenode as send_heartbeat calls it: the register message
\* reaches the coordinator or every retry fails, the exception is caught
\* inside, and consecutive_failures is reset in both cases.
ReRegister(n) ==
  /\ n \in up
  /\ beat.pc[n] = "register"
  /\ datanodes' = IF beat.reach THEN SetHeartbeat(datanodes, n, now) ELSE datanodes
  /\ beat' = [beat EXCEPT !.fails[n] = 0, !.pc[n] = "heartbeat"]
  /\ last' = [NoEvent EXCEPT !.ev = "register", !.ok = beat.reach,
                             !.nodes = <<n>>, !.fresh = n \notin LiveSet]
  /\ UNCHANGED <<directories, files, metadata_cache, objs, datanode_load,
                 dir_lock, now, thr, mon, budget, scope, recency>>
  /\ UNCHANGED <<up, disk, repl, cl, acked, written, probe, dnthr, tmpf, lk>>

InitBeat ==
  /\ InitCoordinator(<<[addr |-> "n1", hb |-> 0], [addr |-> "n2", hb |-> 0]>>)
  /\ InitOutside
  /\ up = {"n1", "n2"}
  /\ budget = Budget(0, 0, 0, 0, 0)
  /\ scope = [files |-> {}, mkdirs |-> {}, rmdirs |-> {}, counts |-> {}]

NextBeat ==
  \/ \E n \in Nodes : SendHeartbeat(n)
  \/ \E n \in Nodes : ReRegister(n)
  \/ NetFlip
  \/ Tick \/ MonitorScan \/ MonitorRemove

SpecBeat == InitBeat /\ [][NextBeat]_vars

\* C33: a heartbeat of block server n that reaches the coordinator leaves n in
\* the membership map, also when n was not in it; a heartbeat round that
\* fails as the max_consecutive_failures-th in a row is followed by a
\* register of that server, and no register is sent by the heartbeat thread
\* after fewer failures.
C33_HeartbeatRegistersAndFailuresReRegister ==
  [][\A n \in Nodes :
       /\ (last'.ev = "heartbeat" /\ last'.ok /\ last'.nodes = <<n>>)
            => /\ n \in LiveSet'
               /\ \E i \in 1..Len(datanodes') :
                    datanodes'[i] = [addr |-> n, hb |-> now]
       /\ (last'.ev = "heartbeat" /\ ~last'.ok /\ last'.nodes = <<n>>)
            => (beat'.pc[n] = "register"
                  <=> beat.fails[n] + 1 >= max_consecutive_failures)
       /\ (last'.ev = "register" /\ last'.nodes = <<n>>)
            => /\ beat.fails[n] >= max_consecutive_failures
               /\ last'.ok => n \in LiveSet'
    ]_vars

\* The monitor had removed n1, which kept running, and n1's next heartbeat has
\* made it a member again.
C33_Witness ==
  /\ last.ev = "heartbeat" /\ last.ok /\ last.fresh
  /\ last.nodes = <<"n1">>
  /\ "n1" \in LiveSet

\* ------------------------------------------------- the primary of each block
\* Three block servers register in any order, and one store_metadata request
\* for a file of three blocks is served; every load counter starts at zero.
PrimStores == 1
PrimBlocks == 3

InitPrim ==
  /\ InitNameNode
  /\ InitOutside
  /\ up = {"n1", "n2", "n3"}
  /\ budget = Budget(0, PrimStores, 0, 0, 0)
  /\ scope = [files |-> {File_f}, mkdirs |-> {}, rmdirs |-> {}, counts |-> {PrimBlocks}]

NextPrim ==
  \/ \E n \in Nodes : Register(n)
  \/ BeginStore("t1") \/ StorePlace("t1") \/ StoreHset("t1") \/ StoreCache("t1")
  \/ StoreRegister("t1")

SpecPrim == InitPrim /\ [][NextPrim]_vars

\* C34 (as claimed): a file of three blocks that was placed on three live
\* nodes, all counters zero before, has each of the three nodes as the first
\* location of exactly one block.
C34_EachNodePrimaryOnce ==
  \A k \in DOMAIN files :
    (/\ Len(files[k].blocks) = PrimBlocks
     /\ \A i \in 1..PrimBlocks : Len(files[k].blocks[i].locations) = num_replicas)
      => \A n \in LiveSet :
           Cardinality({i \in 1..PrimBlocks : files[k].blocks[i].locations[1] = n}) = 1

\* C35 (as claimed): every directory record other than the root's has a
\* parent record, and that record lists it among its children.
C35_DirectoriesFormATree ==
  \A P \in DOMAIN directories \ {Root} :
    /\ get_parent_path(P) \in DOMAIN directories
    /\ basename(P) \in DOMAIN directories[get_parent_path(P)].children

\* ------------------------------------------- recorded locations and holders
\* Four block servers run, the first has registered and the others register
\* at any moment, none stops; the client uploads a one-block file and uploads
\* it again.
HoldWrites == 2

InitHold ==
  /\ InitCoordinator(<<[addr |-> "n1", hb |-> 0]>>)
  /\ InitOutside
  /\ up = Nodes
  /\ budget = Budget(0, 0, 0, 0, 0) @@ ClientBudget(HoldWrites, 0, 0)
  /\ scope = [files |-> {File_f}, mkdirs |-> {}, rmdirs |-> {}, counts |-> {},
              contents |-> {Bytes(1)}]

NextHold ==
  \/ \E n \in Nodes : Register(n)
  \/ \E r \in repl : ReplPick(r) \/ ReplSend(r)
  \/ ClBeginWrite \/ ClSummary \/ ClStoreReply \/ ClReturn
  \/ ClBlockAttempt(1)
  \/ \E t \in {"t1"} :
       \/ ClSendStore(t) \/ StorePlace(t) \/ StoreHset(t) \/ StoreCache(t)
       \/ StoreRegister(t)

SpecHold == InitHold /\ [][NextHold]_vars

\* C37 (as claimed): while no upload is under way and no replication thread
\* is running, every block of every file of the registry is on the disk of
\* at least one of the block servers its record names as locations.
C37_SomeRecordedLocationHoldsTheBlock ==
  (cl.pc = "idle" /\ repl = {}) =>
    \A k \in DOMAIN files : \A i \in 1..Len(files[k].blocks) :
      \E n \in Range(files[k].blocks[i].locations) :
        BlockName(k, files[k].blocks[i].block_id) \in DOMAIN disk[n]

\* ------------------------------------------------------------ client delete
\* Client.delete_file after the confirmation: the delete_file request is due.
\* (todo: the delete_block calls submitted to the executor and not yet run,
\* each a block server and a plan entry.)
ClBeginDelete ==
  /\ cl.pc = "idle"
  /\ budget["delete"] > 0
  /\ \E in \in scope.files :
       cl' = [ClIdle EXCEPT !.pc = "del", !.op = "delete", !.name = in.name,
                            !.cwd = in.cwd]
  /\ budget' = Spend("delete")
  /\ last' = NoEvent
  /\ UNCHANGED <<directories, files, metadata_cache, objs, datanodes,
                 datanode_load, dir_lock, now, thr, mon, scope, recency>>
  /\ UNCHANGED <<up, disk, repl, acked, written, probe, dnthr, tmpf, lk, beat>>

\* "delete_file {filename} {self.current_dir}" reaches a handler thread:
\* NameNode.delete_file up to "if not full_path: return False".
ClSendDelete(t) ==
  /\ cl.pc = "del"
  /\ thr[t].pc = "idle"
  /\ LET full_path == get_file_full_path(cl.name, cl.cwd)
         me == [Idle EXCEPT !.op = "delete_file", !.caller = "client",
                            !.name = cl.name, !.cwd = cl.cwd,
                            !.path = full_path, !.key = path_to_key(full_path),
                            !.pc = "del_hget", !.files0 = files,
                            !.dirs0 = directories]
     IN IF full_path = NoPath
          THEN /\ thr' = [thr EXCEPT ![t] = [me EXCEPT !.pc = "done", !.ok = FALSE]]
               /\ last' = [NoEvent EXCEPT !.ev = "delete_file", !.t = t]
          ELSE /\ thr' = [thr EXCEPT ![t] = me]
               /\ last' = NoEvent
  /\ cl' = [cl EXCEPT !.pc = "del_wait", !.t = t]
  /\ UNCHANGED <<directories, files, metadata_cache, objs, datanodes,
                 datanode_load, dir_lock, now, mon, budget, scope, recency>>
  /\ UNCHANGED <<up, disk, repl, acked, written, probe, dnthr, tmpf, lk, beat>>

\* The response to delete_file: "delete_file_result success" with the plan, or
\* an error.
ClDeleteReply ==
  /\ cl.pc = "del_wait"
  /\ thr[cl.t].pc = "done"
  /\ LET plan == blocks_info(thr[cl.t].md)
         futures == {<<plan[i].locations[j], plan[i]>> :
                       <<i, j>> \in {ij \in (DOMAIN plan) \X (1..num_replicas) :
                                       ij[2] <= Len(plan[ij[1]].locations)}}
     IN cl' = IF thr[cl.t].ok
                THEN [cl EXCEPT !.pc = IF futures = {} THEN "delete_done"
                                       ELSE "del_blocks",
                                !.md = thr[cl.t].md, !.todo = futures,
                                !.result = TRUE]
                ELSE [cl EXCEPT !.pc = "delete_done", !.result = FALSE]
  /\ thr' = [thr EXCEPT ![cl.t] = Idle]
  /\ last' = NoEvent
  /\ UNCHANGED <<directories, files, metadata_cache, objs, datanodes,
                 datanode_load, dir_lock, now, mon, budget, scope, recency>>
  /\ UNCHANGED <<up, disk, repl, acked, written, probe, dnthr, tmpf, lk, beat>>

\* Client.delete_block_from_datanode and DataNode.handle_delete_block: a
\* running server removes the block file if it is there and answers 'success'
\* or 'block_not_found'; a stopped one gives no connection.
ClDeleteBlock ==
  /\ cl.pc = "del_blocks"
  /\ \E x \in cl.todo :
       LET datanode_addr == x[1]
           block_path == BlockName(x[2].storage_name, x[2].block_id)
       IN /\ disk' = IF datanode_addr \in up
                       THEN [disk EXCEPT ![datanode_addr] = MapDel(@, block_path)]
                       ELSE disk
          /\ cl' = [cl EXCEPT !.todo = @ \ {x},
                              !.result = @ /\ datanode_addr \in up,
                              !.pc = IF cl.todo = {x} THEN "delete_done"
                                     ELSE "del_blocks"]
  /\ last' = NoEvent
  /\ UNCHANGED <<directories, files, metadata_cache, objs, datanodes,
                 datanode_load, dir_lock, now, thr, mon, budget, scope, recency>>
  /\ UNCHANGED <<up, repl, acked, written, probe, dnthr, tmpf, lk, beat>>

\* ------------------------------------------------------ delete after upload
\* Two block servers run and register; the client uploads a one-block file
\* and deletes it.
WipeWrites == 1
WipeDeletes == 1

InitWipe ==
  /\ InitNameNode
  /\ InitOutside
  /\ up = {"n1", "n2"}
  /\ budget = Budget(0, 0, 0, 0, 0) @@ ClientBudget(WipeWrites, 0, 0)
                @@ [k \in {"delete"} |-> WipeDeletes]
  /\ scope = [files |-> {File_f}, mkdirs |-> {}, rmdirs |-> {}, counts |-> {},
              contents |-> {Bytes(1)}]

NextWipe ==
  \/ \E n \in Nodes : Register(n)
  \/ \E r \in repl : ReplPick(r) \/ ReplSend(r)
  \/ ClBeginWrite \/ ClSummary \/ ClStoreReply \/ ClReturn
  \/ ClBlockAttempt(1)
  \/ ClBeginDelete \/ ClDeleteReply \/ ClDeleteBlock
  \/ \E t \in {"t1"} :
       \/ ClSendStore(t) \/ StorePlace(t) \/ StoreHset(t) \/ StoreCache(t)
       \/ StoreRegister(t)
       \/ ClSendDelete(t) \/ DelHget(t) \/ DelUnlink(t) \/ DelHdel(t)
       \/ DelCachePop(t) \/ DelReturn(t)

SpecWipe == InitWipe /\ [][NextWipe]_vars

\* C36 (as claimed): once delete_file has returned with every delete_block of
\* the plan answered and no replication thread is left, no block server has a
\* block file of the deleted file's storage key.
C36_NoBlockLeftAfterDelete ==
  (cl.pc = "delete_done" /\ cl.result /\ repl = {}) =>
    \A n \in Nodes : \A name \in DOMAIN disk[n] : name[1] # cl.md.storage_name

\* C38 (as claimed): the deletion step of the monitor keeps every node whose
\* last heartbeat, as the map has it at that moment, is at most
\* heartbeat_timeout old.
C38_MonitorKeepsNodesHeardOfInTime ==
  [][(mon.pc = "remove" /\ mon'.pc = "sleep") =>
       \A i \in 1..Len(datanodes) :
         (now - datanodes[i].hb <= heartbeat_timeout)
           => datanodes[i].addr \in LiveSet'
    ]_vars

\* ------------------------------------------- one name, stored and looked up
\* One handler thread serves mkdir "/a" and "/a/f", and store_metadata and
\* get_metadata of the names "f" and "a/f" with the working directories "/"
\* and "/a" and of the name "/a/f".
NameMkdirs == 2
NameStores == 2
NameGets == 1

InitName ==
  /\ InitNameNode
  /\ InitOutside
  /\ up = {"n1"}
  /\ budget = Budget(NameMkdirs, NameStores, NameGets, 0, 0)
  /\ scope = [files |-> {File_f, File_a_f, File_rel_a_f,
                         F(RawName(FALSE, <<Ca, Cf>>), <<Ca>>),
                         F(RawName(TRUE, <<Ca, Cf>>), Root)},
              mkdirs |-> {<<Ca>>, <<Ca, Cf>>}, rmdirs |-> {},
              counts |-> {MaxBlocks}]

NextName ==
  \/ \E n \in Nodes : Register(n)
  \/ BeginMkdir("t1") \/ MkdirCreate("t1")
  \/ BeginStore("t1") \/ StorePlace("t1") \/ StoreHset("t1") \/ StoreCache("t1")
  \/ StoreRegister("t1")
  \/ BeginGet("t1") \/ GetCache("t1") \/ GetLiveHit("t1") \/ GetFilter("t1")
  \/ GetAssign("t1") \/ GetCheckLoc("t1") \/ GetDumps("t1")
  \/ GetHget("t1")

SpecName == InitName /\ [][NextName]_vars

\* C39 (as claimed): in the state a successful store_metadata of name N with
\* working directory C leaves, get_file_full_path of N and C is the path the
\* file was stored under, and the key of the record is the storage name the
\* client computes for N and C.
C39_StoreAndGetResolveAlike ==
  [][\A t \in Threads :
       (thr[t].pc = "store_register" /\ last'.ev = "store_metadata" /\ last'.ok)
         => \E r \in {thr[t]} :
              /\ r.key \in DOMAIN files'
              /\ get_file_full_path(r.name, r.cwd)' = r.path
              /\ client_storage_name(r.name, r.cwd) = r.key
    ]_vars

\* ------------------------------------------------------ upload over upload
\* Two block servers run and are registered, none stops; the client uploads
\* one-block files to the path "/f", one after the other, and downloads it.
ReupWrites == 2
ReupReads == 1

InitReup ==
  /\ InitCoordinator(<<[addr |-> "n1", hb |-> 0], [addr |-> "n2", hb |-> 0]>>)
  /\ InitOutside
  /\ up = {"n1", "n2"}
  /\ budget = Budget(0, 0, 0, 0, 0) @@ ClientBudget(ReupWrites, ReupReads, 0)
  /\ scope = [files |-> {File_f}, mkdirs |-> {}, rmdirs |-> {}, counts |-> {},
              contents |-> {Bytes(1), <<3>>}]

NextReup ==
  \/ \E r \in repl : ReplPick(r) \/ ReplSend(r)
  \/ ClBeginWrite \/ ClSummary \/ ClStoreReply \/ ClReturn
  \/ ClBeginRead \/ ClGetReply \/ ClReadFinish
  \/ ClBlockAttempt(1) \/ ClReadTry(1)
  \/ \E t \in {"t1"} :
       \/ ClSendStore(t) \/ StorePlace(t) \/ StoreHset(t) \/ StoreCache(t)
       \/ StoreRegister(t)
       \/ ClSendGet(t) \/ GetCache(t) \/ GetLiveHit(t) \/ GetFilter(t)
       \/ GetAssign(t) \/ GetCheckLoc(t) \/ GetDumps(t)

SpecReup == InitReup /\ [][NextReup]_vars

\* C40 (as claimed): a download that returns success for a path whose last
\* upload returned success, no later upload of it begun, has written the
\* bytes of that upload to its output.
C40_DownloadYieldsLatestUpload ==
  (cl.pc = "read_done" /\ cl.result /\ cl.storage_name \in DOMAIN written) =>
    cl.out = written[cl.storage_name]

=============================================================================
